---- MODULE Spec2Model ----
(***************************************************************************)
(* syncd: a sender (src/bin/transfer.rs) mirrors a source tree to a        *)
(* receiver (src/bin/transfer-handler.rs) over a pipelined request /       *)
(* response connection.  The receiver keeps partially uploaded files and   *)
(* deltas in a chunk store (src/store.rs).                                 *)
(*                                                                         *)
(* Both processes run on one machine here (the sender spawns the handler   *)
(* with --handler-cmd), so one filesystem `fs` holds the source tree below *)
(* /src and the destination tree below /dst.                               *)
(*                                                                         *)
(* Scaling.  A file is a sequence of bytes over Bytes, at most MaxLen      *)
(* long.  FILE_CHUNK_SIZE (1 MiB in the code) and BLOCK_SIZE (4096) are    *)
(* scaled down to a few bytes so that multi-chunk uploads and block        *)
(* matches happen within MaxLen.  SHA-256 is modelled as an injective      *)
(* function of the content.  The fast_rsync delta is a sequence of         *)
(* symbols: a header, then one symbol per command (copy of a base range,   *)
(* literal byte), then an end marker; it is chunked symbol by symbol.      *)
(* A write to a file is on disk when the call returns (no buffering).      *)
(*                                                                         *)
(* Spec is the initial sync of a tree that does not change, SpecWatch the  *)
(* whole run with changes of the source tree, SpecRecv the receiver        *)
(* serving a client that sends requests of its own choice.                 *)
(***************************************************************************)
EXTENDS Integers, Sequences, FiniteSets, TLC

\* ------------------------------------------------------------------ bounds
\* the longest file of the trees the initial sync starts from
MaxLen == 5
\* the longest file a user process writes while the sender runs
MaxWriteLen == 1
\* the changes user processes make to the source tree
MaxEvents == 1
\* the writes of another process to the destination
MaxTamper == 1
\* the requests a client other than the sender sends
MaxRequests == 3

\* ------------------------------------------------- constants of the program
\* transfer.rs FILE_CHUNK_SIZE (1 MiB) and the block_size of the signature
\* (4096), scaled
FILE_CHUNK_SIZE == 3
BLOCK_SIZE == 2

Bytes == {0, 1}

RECURSIVE SeqsUpTo(_)
SeqsUpTo(n) ==
    IF n = 0 THEN {<<>>}
    ELSE LET S == SeqsUpTo(n - 1)
         IN  S \cup {Append(s, b) : s \in {t \in S : Len(t) = n - 1}, b \in Bytes}

Contents == SeqsUpTo(MaxLen)
WriteContents == SeqsUpTo(MaxWriteLen)

Min(a, b) == IF a < b THEN a ELSE b

\* ------------------------------------------------------------------- paths
\* A path is the sequence of its components; an absolute one starts with "/".
SrcRoot == <<"/", "src">>
DstRoot == <<"/", "dst">>
Names == {"a", "b", ".h"}

IsAbsolute(p) == Len(p) > 0 /\ p[1] = "/"

\* std::path::Path::join: an absolute argument replaces the base.
Join(base, p) == IF IsAbsolute(p) THEN p ELSE base \o p

HasParentDir(p) == \E i \in 1..Len(p) : p[i] = ".."

\* The kernel's resolution of a path: ".." steps to the parent ("/" is its own).
RECURSIVE ResolveFrom(_, _)
ResolveFrom(done, rest) ==
    IF rest = <<>> THEN done
    ELSE IF Head(rest) = ".."
         THEN ResolveFrom(IF Len(done) > 1 THEN SubSeq(done, 1, Len(done) - 1) ELSE done,
                          Tail(rest))
         ELSE ResolveFrom(Append(done, Head(rest)), Tail(rest))

Resolve(p) == ResolveFrom(<<>>, p)

IsPrefix(r, p) == Len(r) <= Len(p) /\ SubSeq(p, 1, Len(r)) = r

\* Path::strip_prefix
StripPrefix(root, p) ==
    IF IsPrefix(root, p)
    THEN [ok |-> TRUE, rel |-> SubSeq(p, Len(root) + 1, Len(p))]
    ELSE [ok |-> FALSE, rel |-> <<>>]

Parent(p) == SubSeq(p, 1, Len(p) - 1)

\* ------------------------------------------------------------- filesystem
FsPaths == {<<"/">>, SrcRoot, DstRoot}
             \cup {r \o <<n>> : r \in {SrcRoot, DstRoot}, n \in Names}
             \cup {DstRoot \o <<"b", "a">>}

NoNode == [k |-> "none"]
DirNode == [k |-> "dir"]
FileNode(c) == [k |-> "file", c |-> c]

Node(f, p) == LET q == Resolve(p) IN IF q \in FsPaths THEN f[q] ELSE NoNode
Exists(f, p) == Node(f, p).k # "none"
IsDir(f, p) == Node(f, p).k = "dir"
IsFile(f, p) == Node(f, p).k = "file"
Below(f, p) == {q \in FsPaths : q # p /\ IsPrefix(p, q) /\ f[q].k # "none"}

FsOk(f) == [ok |-> TRUE, fs |-> f]
FsErr(f) == [ok |-> FALSE, fs |-> f]

\* std::fs::remove_file (unlink)
fs_remove_file(f, p) ==
    IF IsFile(f, p) THEN FsOk([f EXCEPT ![Resolve(p)] = NoNode]) ELSE FsErr(f)

\* std::fs::remove_dir (rmdir): the directory must be empty
fs_remove_dir(f, p) ==
    IF IsDir(f, p) /\ Below(f, Resolve(p)) = {}
    THEN FsOk([f EXCEPT ![Resolve(p)] = NoNode]) ELSE FsErr(f)

\* std::fs::remove_dir_all
fs_remove_dir_all(f, p) ==
    IF IsDir(f, p)
    THEN FsOk([q \in FsPaths |-> IF IsPrefix(Resolve(p), q) THEN NoNode ELSE f[q]])
    ELSE FsErr(f)

\* std::fs::create_dir_all: creates the missing ancestors too; fails on a file
\* in the way.
fs_create_dir_all(f, p) ==
    LET q == Resolve(p)
        anc == {SubSeq(q, 1, i) : i \in 1..Len(q)}
    IN  IF q \in FsPaths /\ \A a \in anc : f[a].k # "file"
        THEN FsOk([x \in FsPaths |-> IF x \in anc THEN DirNode ELSE f[x]])
        ELSE FsErr(f)

\* File::create: creates or truncates; the parent must be a directory.
fs_create(f, p) ==
    LET q == Resolve(p)
    IN  IF q \in FsPaths /\ Len(q) > 1 /\ IsDir(f, Parent(q)) /\ ~IsDir(f, q)
        THEN FsOk([f EXCEPT ![q] = FileNode(<<>>)]) ELSE FsErr(f)

\* std::fs::rename: moves a file, or a directory with what is below it; an
\* existing target is replaced (a file by a file, an empty directory by a
\* directory).
fs_rename(f, from, to) ==
    LET a == Resolve(from)
        b == Resolve(to)
        origin(x) == a \o SubSeq(x, Len(b) + 1, Len(x))
    IN  IF /\ Exists(f, a) /\ b \in FsPaths /\ Len(b) > 1 /\ IsDir(f, Parent(b))
           /\ a = b \/ ~IsPrefix(a, b)
           /\ \/ ~Exists(f, b)
              \/ IsFile(f, a) /\ IsFile(f, b)
              \/ IsDir(f, a) /\ IsDir(f, b) /\ Below(f, b) = {}
        THEN IF a = b THEN FsOk(f)
             ELSE FsOk([x \in FsPaths |->
                          IF IsPrefix(b, x) THEN Node(f, origin(x))
                          ELSE IF IsPrefix(a, x) THEN NoNode ELSE f[x]])
        ELSE FsErr(f)

\* ----------------------------------------------------- hashing and deltas
\* lib.rs shasum_bytes: SHA-256 of the content (injective here).
shasum_bytes(c) == <<"sha256", c>>

NumChunks(s) == (Len(s) + FILE_CHUNK_SIZE - 1) \div FILE_CHUNK_SIZE
\* slice::chunks(FILE_CHUNK_SIZE), the n-th chunk (from 1)
Chunk(s, n) == SubSeq(s, (n - 1) * FILE_CHUNK_SIZE + 1, Min(n * FILE_CHUNK_SIZE, Len(s)))

\* Signature::calculate(..).serialize(..): the hashes of the blocks of
\* BLOCK_SIZE bytes (the last one may be short); a block's hash stands for its
\* content.
RECURSIVE Blocks(_)
Blocks(c) ==
    IF c = <<>> THEN <<>>
    ELSE <<SubSeq(c, 1, Min(BLOCK_SIZE, Len(c)))>>
           \o Blocks(SubSeq(c, Min(BLOCK_SIZE, Len(c)) + 1, Len(c)))

Signature(c) == [block_size |-> BLOCK_SIZE, blocks |-> Blocks(c)]

\* The symbols of a serialized delta.
DeltaMagic == <<99>>
DeltaEnd == <<98>>
Lit(b) == 10 + b
Copy(off, len) == 100 + 10 * off + len
IsLit(t) == t \in {Lit(b) : b \in Bytes}
IsCopy(t) == t >= 100
CopyOff(t) == (t - 100) \div 10
CopyLen(t) == (t - 100) % 10

\* fast_rsync::diff: a window of block_size bytes that matches a block of the
\* signature becomes a copy of that block, any other byte a literal; a copy
\* that goes on where the copy before it ended, in the data and in the base,
\* extends that copy.
RECURSIVE DiffFrom(_, _, _)
DiffFrom(sig, data, here) ==
    IF here > Len(data) THEN <<>>
    ELSE LET w == SubSeq(data, here, Min(here + sig.block_size - 1, Len(data)))
             hits == {i \in 1..Len(sig.blocks) :
                        Len(w) = sig.block_size /\ sig.blocks[i] = w}
         IN  IF hits # {}
             THEN LET i == CHOOSE h \in hits : \A j \in hits : h <= j
                  IN  <<Copy((i - 1) * sig.block_size, sig.block_size)>>
                        \o DiffFrom(sig, data, here + sig.block_size)
             ELSE <<Lit(data[here])>> \o DiffFrom(sig, data, here + 1)

RECURSIVE Queued(_)
Queued(cmds) ==
    IF Len(cmds) < 2 THEN cmds
    ELSE IF /\ IsCopy(cmds[1]) /\ IsCopy(cmds[2])
            /\ CopyOff(cmds[1]) + CopyLen(cmds[1]) = CopyOff(cmds[2])
         THEN Queued(<<Copy(CopyOff(cmds[1]), CopyLen(cmds[1]) + CopyLen(cmds[2]))>>
                       \o SubSeq(cmds, 3, Len(cmds)))
         ELSE <<cmds[1]>> \o Queued(Tail(cmds))

diff(sig, data) == DeltaMagic \o Queued(DiffFrom(sig, data, 1)) \o DeltaEnd

\* fast_rsync::apply_limited: what was written to `out` and whether the call
\* returned Ok.  Errors: wrong magic, unknown command, copy out of the base's
\* bounds, output over the limit, trailing data after the end, missing end.
RECURSIVE ApplyFrom(_, _, _, _, _)
ApplyFrom(base, delta, i, out, limit) ==
    IF i > Len(delta) THEN [ok |-> FALSE, out |-> out]
    ELSE LET t == delta[i]
         IN  IF <<t>> = DeltaEnd THEN [ok |-> i = Len(delta), out |-> out]
             ELSE IF IsLit(t)
             THEN IF Len(out) + 1 > limit THEN [ok |-> FALSE, out |-> out]
                  ELSE ApplyFrom(base, delta, i + 1, Append(out, t - Lit(0)), limit)
             ELSE IF IsCopy(t)
             THEN IF \/ CopyOff(t) + CopyLen(t) > Len(base)
                     \/ Len(out) + CopyLen(t) > limit
                  THEN [ok |-> FALSE, out |-> out]
                  ELSE ApplyFrom(base, delta, i + 1,
                                 out \o SubSeq(base, CopyOff(t) + 1, CopyOff(t) + CopyLen(t)),
                                 limit)
             ELSE [ok |-> FALSE, out |-> out]

apply_limited(base, delta, limit) ==
    IF Len(delta) = 0 \/ <<delta[1]>> # DeltaMagic
    THEN [ok |-> FALSE, out |-> <<>>]
    ELSE ApplyFrom(base, delta, 2, <<>>, limit)

\* ---------------------------------------------------------------- protocol
\* proto.rs.  An absent Option is None; an absent transfer has kind "None".
None == -1
NoSha == <<"none", <<>>>>
NoSig == [block_size |-> 0, blocks |-> <<>>]
NoTransfer == [kind |-> "None", data |-> <<>>, shasum |-> NoSha,
               file_size |-> None, data_size |-> None]

Transfer(kind, data, shasum, file_size, data_size) ==
    [kind |-> kind, data |-> data, shasum |-> shasum,
     file_size |-> file_size, data_size |-> data_size]

\* TransferRequest; the id is set when the request is sent.
Request(path, file_type, kind, new_path, transfer) ==
    [id |-> 0, path |-> path, file_type |-> file_type, kind |-> kind,
     new_path |-> new_path, transfer |-> transfer]

\* What a handler leaves behind: the response kind and the new filesystem and
\* chunk store.
Result(kind, signature, reason, f, st) ==
    [kind |-> kind, signature |-> signature, reason |-> reason, fs |-> f, store |-> st]
ROk(f, st) == Result("Ok", NoSig, "", f, st)
RNeedContents(f, st) == Result("NeedContents", NoSig, "", f, st)
RDifferent(sig, f, st) == Result("Different", sig, "", f, st)
RCantHandle(reason, f, st) == Result("CantHandle", NoSig, reason, f, st)

\* ------------------------------------------------------------- chunk store
\* store.rs.  A FileEntry's hasher is the bytes fed to it so far; `at` is where
\* the file its writer has open is linked (<<>> once it was unlinked).
EmptyStore == [files |-> <<>>, deltas |-> <<>>]

FileEntry(path, shasum) ==
    [shasum |-> shasum, hasher |-> <<>>, num_bytes |-> 0, at |-> Resolve(path)]

Put(m, k, v) == [x \in DOMAIN m \cup {k} |-> IF x = k THEN v ELSE m[x]]
Drop(m, k) == [x \in DOMAIN m \ {k} |-> m[x]]

\* The open files that an unlink of the paths U leaves without a name.
st_unlink(st, U) ==
    [st EXCEPT !.files = [p \in DOMAIN st.files |->
        IF st.files[p].at \in U THEN [st.files[p] EXCEPT !.at = <<>>] ELSE st.files[p]]]

\* The open files that a rename of a to b carries along.
st_rename(st, a, b) ==
    [st EXCEPT !.files = [p \in DOMAIN st.files |->
        IF st.files[p].at # <<>> /\ IsPrefix(a, st.files[p].at)
        THEN [st.files[p] EXCEPT !.at = b \o SubSeq(@, Len(a) + 1, Len(@))]
        ELSE st.files[p]]]

\* AsyncWrite for FileEntry: the bytes go to the open file and to the hasher.
\* (The BufWriter's buffering is not modelled: the bytes are on disk at once.)
fs_append(f, at, data) ==
    IF at # <<>> /\ IsFile(f, at)
    THEN [f EXCEPT ![at] = FileNode(f[at].c \o data)] ELSE f

\* A push_file_chunk that creates the entry when there is none and otherwise
\* keeps it, whatever the shasum of the chunk.
push_file_chunk_keeping_entry(st, f, path, shasum, data) ==
    LET vacant == path \notin DOMAIN st.files
        created == IF vacant THEN fs_create(f, path) ELSE FsOk(f)
        entry == IF vacant THEN FileEntry(path, shasum) ELSE st.files[path]
        written == [entry EXCEPT !.hasher = @ \o data, !.num_bytes = @ + Len(data)]
    IN  IF ~created.ok
        THEN [ok |-> FALSE, store |-> st, fs |-> f, total |-> 0]
        ELSE [ok |-> TRUE,
              store |-> [st EXCEPT !.files = Put(st.files, path, written)],
              fs |-> fs_append(created.fs, entry.at, data),
              total |-> written.num_bytes]

\* Store::push_file_chunk
push_file_chunk(st, f, path, shasum, data) ==
    LET vacant == path \notin DOMAIN st.files
        reset == vacant \/ st.files[path].shasum # shasum
        created == IF reset THEN fs_create(f, path) ELSE FsOk(f)
        entry == IF reset THEN FileEntry(path, shasum) ELSE st.files[path]
        written == [entry EXCEPT !.hasher = @ \o data, !.num_bytes = @ + Len(data)]
    IN  IF ~created.ok
        THEN [ok |-> FALSE, store |-> st, fs |-> f, total |-> 0]
        ELSE [ok |-> TRUE,
              store |-> [st EXCEPT !.files = Put(st.files, path, written)],
              fs |-> fs_append(created.fs, entry.at, data),
              total |-> written.num_bytes]

\* Store::push_delta_chunk
push_delta_chunk(st, path, shasum, data) ==
    LET entry == IF path \in DOMAIN st.deltas THEN st.deltas[path]
                 ELSE [shasum |-> shasum, delta |-> <<>>]
        kept == IF shasum # entry.shasum THEN <<>> ELSE entry.delta
        pushed == [entry EXCEPT !.delta = kept \o data]
    IN  [store |-> [st EXCEPT !.deltas = Put(st.deltas, path, pushed)],
         delta |-> pushed.delta]

\* A remove_file that returns the hash and leaves the entry in the store.
remove_file_keeping_entry(st, path) ==
    IF path \in DOMAIN st.files
    THEN [some |-> TRUE, shasum |-> shasum_bytes(st.files[path].hasher), store |-> st]
    ELSE [some |-> FALSE, shasum |-> NoSha, store |-> st]

\* Store::remove_file: the final hash of the entry, if there was one.
remove_file(st, path) ==
    IF path \in DOMAIN st.files
    THEN [some |-> TRUE, shasum |-> shasum_bytes(st.files[path].hasher),
          store |-> [st EXCEPT !.files = Drop(st.files, path)]]
    ELSE [some |-> FALSE, shasum |-> NoSha, store |-> st]

\* A remove_delta that leaves the entry in the store.
remove_delta_keeping_entry(st, path) == st

\* Store::remove_delta
remove_delta(st, path) == [st EXCEPT !.deltas = Drop(st.deltas, path)]

\* ----------------------------------------------------------------- receiver
\* transfer-handler.rs.  Each handler takes the request, the filesystem and the
\* chunk store and yields a Result.

\* lib.rs mmap / mmap_with_shasum: opening and mapping succeeds for a regular
\* file (an empty one too), fails for a missing path or a directory.
CanMmap(f, path) == IsFile(f, path)

handle_check_dir(path, f, st) ==
    IF Exists(f, path)
    THEN IF ~IsDir(f, path)
         THEN LET removed == fs_remove_file(f, path)
                  made == fs_create_dir_all(removed.fs, path)
              IN  IF ~removed.ok THEN RCantHandle("io", f, st)
                  ELSE IF ~made.ok
                  THEN RCantHandle("io", removed.fs, st_unlink(st, {Resolve(path)}))
                  ELSE ROk(made.fs, st_unlink(st, {Resolve(path)}))
         ELSE ROk(f, st)
    ELSE LET made == fs_create_dir_all(f, path)
         IN  IF made.ok THEN ROk(made.fs, st) ELSE RCantHandle("io", f, st)

\* A handle_check_file that creates the file it misses.
handle_check_file_creating(path, transfer, f, st) ==
    IF ~Exists(f, path) THEN RNeedContents(fs_create(f, path).fs, st)
    ELSE IF ~CanMmap(f, path) THEN RCantHandle("io", f, st)
    ELSE IF shasum_bytes(Node(f, path).c) = transfer.shasum THEN ROk(f, st)
    ELSE RDifferent(Signature(Node(f, path).c), f, st)

handle_check_file(path, transfer, f, st) ==
    IF ~Exists(f, path) THEN RNeedContents(f, st)
    ELSE IF ~CanMmap(f, path) THEN RCantHandle("io", f, st)
    ELSE IF shasum_bytes(Node(f, path).c) = transfer.shasum THEN ROk(f, st)
    ELSE RDifferent(Signature(Node(f, path).c), f, st)

handle_check(root, req, f, st) ==
    LET path == Join(root, req.path)
    IN  CASE req.file_type = "Dir" -> handle_check_dir(path, f, st)
          [] req.file_type = "File" ->
                IF req.transfer.kind = "None"
                THEN RCantHandle("missing transfer data on check file request", f, st)
                ELSE handle_check_file(path, req.transfer, f, st)
          [] OTHER -> RCantHandle("symlinks are not implemented", f, st)

\* A handle_contents that does not compare the final hash with the shasum.
handle_contents_unverified(root, req, f, st) ==
    LET path == Join(root, req.path)
        pushed == push_file_chunk(st, f, path, req.transfer.shasum, req.transfer.data)
    IN  IF req.file_type # "File" \/ req.transfer.kind # "Contents"
           \/ req.transfer.file_size = None
        THEN RCantHandle("contents request", f, st)
        ELSE IF ~pushed.ok THEN RCantHandle("io", f, st)
        ELSE IF pushed.total = req.transfer.file_size
        THEN ROk(pushed.fs, remove_file(pushed.store, path).store)
        ELSE ROk(pushed.fs, pushed.store)

\* A handle_contents that does not look at the file type of the request.
handle_contents_of_any_type(root, req, f, st) ==
    IF req.transfer.kind = "None"
    THEN RCantHandle("transfer data missing for contents request", f, st)
    ELSE IF req.transfer.kind # "Contents"
    THEN RCantHandle("transfer kind is not contents for contents request", f, st)
    ELSE IF req.transfer.file_size = None
    THEN RCantHandle("contents transfer does not have file_size", f, st)
    ELSE
    LET path == Join(root, req.path)
        pushed == push_file_chunk(st, f, path, req.transfer.shasum, req.transfer.data)
        removed == remove_file(pushed.store, path)
    IN  IF ~pushed.ok THEN RCantHandle("io", f, st)
        ELSE IF pushed.total = req.transfer.file_size
        THEN IF removed.shasum # req.transfer.shasum
             THEN RCantHandle("data integrity failed", pushed.fs, removed.store)
             ELSE ROk(pushed.fs, removed.store)
        ELSE ROk(pushed.fs, pushed.store)

handle_contents(root, req, f, st) ==
    IF req.file_type # "File" THEN RCantHandle("contents request for a non-file", f, st)
    ELSE IF req.transfer.kind = "None"
    THEN RCantHandle("transfer data missing for contents request", f, st)
    ELSE IF req.transfer.kind # "Contents"
    THEN RCantHandle("transfer kind is not contents for contents request", f, st)
    ELSE IF req.transfer.file_size = None
    THEN RCantHandle("contents transfer does not have file_size", f, st)
    ELSE
    LET path == Join(root, req.path)
        pushed == push_file_chunk(st, f, path, req.transfer.shasum, req.transfer.data)
        removed == remove_file(pushed.store, path)
    IN  IF ~pushed.ok THEN RCantHandle("io", f, st)
        ELSE IF pushed.total = req.transfer.file_size
        THEN \* we got the last chunk
             IF removed.shasum # req.transfer.shasum
             THEN RCantHandle("data integrity failed", pushed.fs, removed.store)
             ELSE ROk(pushed.fs, removed.store)
        ELSE ROk(pushed.fs, pushed.store)

\* A handle_delta that leaves the DeltaEntry in the store when the delta is
\* complete.
handle_delta_keeping_entry(root, req, f, st) ==
    IF req.file_type # "File" THEN RCantHandle("delta request for a non-file", f, st)
    ELSE IF req.transfer.kind = "None"
    THEN RCantHandle("transfer data missing for contents request", f, st)
    ELSE IF req.transfer.kind # "Delta"
    THEN RCantHandle("transfer kind is not delta for delta request", f, st)
    ELSE IF req.transfer.file_size = None
    THEN RCantHandle("delta transfer does not have file_size", f, st)
    ELSE IF req.transfer.data_size = None
    THEN RCantHandle("delta transfer does not have data_size", f, st)
    ELSE
    LET path == Join(root, req.path)
        pushed == push_delta_chunk(st, path, req.transfer.shasum, req.transfer.data)
        st2 == pushed.store
        base == Node(f, path).c
        unlinked == fs_remove_file(f, path)
        created == fs_create(unlinked.fs, path)
        st3 == st_unlink(st2, {Resolve(path)})
        applied == apply_limited(base, req.transfer.data, req.transfer.file_size)
        written == [created.fs EXCEPT ![Resolve(path)] = FileNode(applied.out)]
    IN  IF Len(pushed.delta) # req.transfer.data_size
        THEN ROk(f, pushed.store)
        ELSE IF ~CanMmap(f, path) THEN RCantHandle("io", f, st2)
             ELSE IF ~unlinked.ok THEN RCantHandle("io", f, st2)
             ELSE IF ~created.ok THEN RCantHandle("io", unlinked.fs, st3)
             ELSE IF ~applied.ok THEN RCantHandle("apply", written, st3)
             ELSE IF shasum_bytes(applied.out) = req.transfer.shasum
             THEN ROk(written, st3)
             ELSE RNeedContents(written, st3)

handle_delta(root, req, f, st) ==
    IF req.file_type # "File" THEN RCantHandle("delta request for a non-file", f, st)
    ELSE IF req.transfer.kind = "None"
    THEN RCantHandle("transfer data missing for contents request", f, st)
    ELSE IF req.transfer.kind # "Delta"
    THEN RCantHandle("transfer kind is not delta for delta request", f, st)
    ELSE IF req.transfer.file_size = None
    THEN RCantHandle("delta transfer does not have file_size", f, st)
    ELSE IF req.transfer.data_size = None
    THEN RCantHandle("delta transfer does not have data_size", f, st)
    ELSE
    LET path == Join(root, req.path)
        pushed == push_delta_chunk(st, path, req.transfer.shasum, req.transfer.data)
        st2 == remove_delta(pushed.store, path)
        base == Node(f, path).c
        unlinked == fs_remove_file(f, path)
        created == fs_create(unlinked.fs, path)
        st3 == st_unlink(st2, {Resolve(path)})
        \* the delta applied is the data of this request
        applied == apply_limited(base, req.transfer.data, req.transfer.file_size)
        written == [created.fs EXCEPT ![Resolve(path)] = FileNode(applied.out)]
    IN  IF Len(pushed.delta) # req.transfer.data_size
        THEN \* need more delta chunks
             ROk(f, pushed.store)
        ELSE \* we got the last delta chunk
             IF ~CanMmap(f, path) THEN RCantHandle("io", f, st2)
             ELSE IF ~unlinked.ok THEN RCantHandle("io", f, st2)
             ELSE IF ~created.ok THEN RCantHandle("io", unlinked.fs, st3)
             ELSE IF ~applied.ok THEN RCantHandle("apply", written, st3)
             ELSE IF shasum_bytes(applied.out) = req.transfer.shasum
             THEN ROk(written, st3)            \* apply worked
             ELSE RNeedContents(written, st3)  \* apply failed => ask for the full contents

handle_remove(root, req, f, st) ==
    LET path == Join(root, req.path)
        removed == IF req.file_type = "Dir" THEN fs_remove_dir(f, path)
                   ELSE fs_remove_file(f, path)
    IN  IF removed.ok THEN ROk(removed.fs, st_unlink(st, {Resolve(path)}))
        ELSE RCantHandle("io", f, st)

\* A handle_rename that renames whether `to` exists or not.
handle_rename_always(root, req, f, st) ==
    LET from == Join(root, req.path)
        to == Join(root, req.new_path)
        gone == {q \in FsPaths : IsPrefix(Resolve(to), q)}
        removed == IF ~Exists(f, to) THEN FsOk(f)
                   ELSE IF IsDir(f, to) THEN fs_remove_dir_all(f, to)
                   ELSE fs_remove_file(f, to)
        renamed == fs_rename(removed.fs, from, to)
    IN  IF ~removed.ok THEN RCantHandle("io", f, st)
        ELSE IF ~renamed.ok THEN RCantHandle("io", removed.fs, st_unlink(st, gone))
        ELSE ROk(renamed.fs,
                 st_rename(st_unlink(st, gone), Resolve(from), Resolve(to)))

handle_rename(root, req, f, st) ==
    LET from == Join(root, req.path)
        to == Join(root, req.new_path)
        gone == {q \in FsPaths : IsPrefix(Resolve(to), q)}
        removed == IF IsDir(f, to) THEN fs_remove_dir_all(f, to) ELSE fs_remove_file(f, to)
        renamed == fs_rename(removed.fs, from, to)
    IN  IF Exists(f, to)
        THEN IF ~removed.ok THEN RCantHandle("io", f, st)
             ELSE IF ~renamed.ok THEN RCantHandle("io", removed.fs, st_unlink(st, gone))
             ELSE ROk(renamed.fs,
                      st_rename(st_unlink(st, gone), Resolve(from), Resolve(to)))
        ELSE ROk(f, st)

\* A transfer_handler that lets a handler's error out as an error of the
\* service instead of a CantHandle response.
transfer_handler_failing(root, req, f, st) ==
    LET res == CASE req.kind = "Check" -> handle_check(root, req, f, st)
                 [] req.kind = "Delta" -> handle_delta(root, req, f, st)
                 [] req.kind = "Contents" -> handle_contents(root, req, f, st)
                 [] req.kind = "Remove" -> handle_remove(root, req, f, st)
                 [] req.kind = "Rename" -> handle_rename(root, req, f, st)
    IN  IF res.kind = "CantHandle" THEN [res EXCEPT !.kind = "Err"] ELSE res

\* transfer_handler: dispatch on the request kind; a handler's error becomes
\* CantHandle.
transfer_handler(root, req, f, st) ==
    CASE req.kind = "Check" -> handle_check(root, req, f, st)
      [] req.kind = "Delta" -> handle_delta(root, req, f, st)
      [] req.kind = "Contents" -> handle_contents(root, req, f, st)
      [] req.kind = "Remove" -> handle_remove(root, req, f, st)
      [] req.kind = "Rename" -> handle_rename(root, req, f, st)

\* A response that carries the nil identifier whatever the request was.
ResponseWithoutId(id, res) ==
    [id |-> 0, kind |-> res.kind, signature |-> res.signature, reason |-> res.reason]

Response(id, res) ==
    [id |-> id, kind |-> res.kind, signature |-> res.signature, reason |-> res.reason]

\* ------------------------------------------------------------------- sender
\* transfer.rs.  `cur` is where the sender stands in the entry or event it is
\* handling: the request it awaits the response to, the snapshot (mmap) and
\* shasum captured by mmap_with_shasum, the stream being chunked and the
\* number n of the chunk last sent.
Idle == [op |-> "idle", path |-> <<>>, rel |-> <<>>, mmap |-> <<>>, shasum |-> NoSha,
         signature |-> NoSig, stream |-> <<>>, n |-> 0, num_chunks |-> 0,
         fallback |-> FALSE]

\* What a step of the sender comes to: its next position, the request it sends
\* (none or one), whether it logged a warning (a handler-local error, the outer
\* Err) and whether it met a fatal error (the inner Err).
Out(c, send, warn, fatal) == [cur |-> c, send |-> send, warn |-> warn, fatal |-> fatal]
Done == Out(Idle, <<>>, FALSE, FALSE)
Warn == Out(Idle, <<>>, TRUE, FALSE)
Fatal == Out(Idle, <<>>, FALSE, TRUE)

\* ignore.rs Ignore::should_skip_path with no ignore file in the tree: the
\* hidden rule, on the path and on every parent.
HiddenNames == {".h"}
ignore_hidden == TRUE
should_skip_path(path) ==
    ignore_hidden /\ \E i \in 1..Len(path) : path[i] \in HiddenNames

\* A Contents request that announces the length of its chunk as the total.
ContentsRequestOfChunk(c, n) ==
    Request(c.rel, "File", "Contents", <<>>,
            Transfer("Contents", Chunk(c.mmap, n), c.shasum,
                     Len(Chunk(c.mmap, n)), Len(Chunk(c.mmap, n))))

ContentsRequest(c, n) ==
    Request(c.rel, "File", "Contents", <<>>,
            Transfer("Contents", Chunk(c.mmap, n), c.shasum, Len(c.mmap), Len(c.mmap)))

DeltaRequest(c, n) ==
    Request(c.rel, "File", "Delta", <<>>,
            Transfer("Delta", Chunk(c.stream, n), c.shasum, Len(c.mmap), Len(c.stream)))

check_dir(root, path) ==
    LET rel == StripPrefix(root, path)
    IN  IF ~rel.ok THEN Warn
        ELSE Out([Idle EXCEPT !.op = "check_dir", !.path = path, !.rel = rel.rel],
                 <<Request(rel.rel, "Dir", "Check", <<>>, NoTransfer)>>, FALSE, FALSE)

check_file(root, path, f) ==
    LET rel == StripPrefix(root, path)
        mmap == Node(f, path).c
        shasum == shasum_bytes(mmap)
    IN  IF ~CanMmap(f, path) \/ ~rel.ok THEN Warn
        ELSE Out([Idle EXCEPT !.op = "check_file", !.path = path, !.rel = rel.rel,
                              !.mmap = mmap, !.shasum = shasum],
                 <<Request(rel.rel, "File", "Check", <<>>,
                           Transfer("Empty", <<>>, shasum, None, None))>>,
                 FALSE, FALSE)

\* A transfer_contents_with_mmap that sends its first two chunks without
\* awaiting the response to the first.
transfer_contents_with_mmap_pipelined(root, path, mmap, shasum, fallback) ==
    LET rel == StripPrefix(root, path)
        c == [Idle EXCEPT !.op = "contents", !.path = path, !.rel = rel.rel,
                          !.mmap = mmap, !.shasum = shasum, !.stream = mmap,
                          !.n = Min(2, NumChunks(mmap)),
                          !.num_chunks = NumChunks(mmap), !.fallback = fallback]
    IN  IF ~rel.ok THEN Warn
        ELSE IF NumChunks(mmap) = 0 THEN Done
        ELSE Out(c, [n \in 1..Min(2, NumChunks(mmap)) |-> ContentsRequest(c, n)],
                 FALSE, FALSE)

\* The loop over mmap.chunks(FILE_CHUNK_SIZE): no chunk, no request.
transfer_contents_with_mmap(root, path, mmap, shasum, fallback) ==
    LET rel == StripPrefix(root, path)
        c == [Idle EXCEPT !.op = "contents", !.path = path, !.rel = rel.rel,
                          !.mmap = mmap, !.shasum = shasum, !.stream = mmap,
                          !.n = 1, !.num_chunks = NumChunks(mmap),
                          !.fallback = fallback]
    IN  IF ~rel.ok THEN Warn
        ELSE IF NumChunks(mmap) = 0 THEN Done
        ELSE Out(c, <<ContentsRequest(c, 1)>>, FALSE, FALSE)

transfer_contents(root, path, f) ==
    IF ~CanMmap(f, path) THEN Warn
    ELSE transfer_contents_with_mmap(root, path, Node(f, path).c,
                                     shasum_bytes(Node(f, path).c), FALSE)

\* Signature::deserialize: NoSig stands for bytes that are no signature.
CanDeserialize(signature) == signature # NoSig

transfer_delta_with_mmap(root, path, mmap, shasum, signature) ==
    LET delta == diff(signature, mmap)
        rel == StripPrefix(root, path)
        c == [Idle EXCEPT !.op = "delta", !.path = path, !.rel = rel.rel,
                          !.mmap = mmap, !.shasum = shasum, !.signature = signature,
                          !.stream = delta, !.n = 1, !.num_chunks = NumChunks(delta)]
    IN  IF ~CanDeserialize(signature) \/ ~rel.ok THEN Warn
        ELSE IF NumChunks(delta) = 0 THEN Done
        ELSE Out(c, <<DeltaRequest(c, 1)>>, FALSE, FALSE)

handle_event_remove(path, is_dir) ==
    Out([Idle EXCEPT !.op = "remove", !.path = path],
        <<Request(path, IF is_dir THEN "Dir" ELSE "File", "Remove", <<>>, NoTransfer)>>,
        FALSE, FALSE)

handle_event_rename(from, to) ==
    Out([Idle EXCEPT !.op = "rename", !.path = from],
        <<Request(from, "File", "Rename", to, NoTransfer)>>, FALSE, FALSE)

\* handle_entry: an entry of the walk
handle_entry(root, path, f) ==
    CASE ~Exists(f, path) -> Warn          \* entry.metadata() fails
      [] IsDir(f, path) -> check_dir(root, path)
      [] IsFile(f, path) -> check_file(root, path, f)

\* handle_fs_event: an event of the watcher
handle_fs_event(root, event, f) ==
    CASE event.kind = "CreateFolder" /\ ~should_skip_path(event.p1) ->
            check_dir(root, event.p1)
      [] event.kind = "CreateFile" /\ ~should_skip_path(event.p1) ->
            transfer_contents(root, event.p1, f)
      [] event.kind = "ModifyData" /\ ~should_skip_path(event.p1) ->
            check_file(root, event.p1, f)
      [] event.kind = "Rename" ->
            IF should_skip_path(event.p1) /\ ~should_skip_path(event.p2)
            THEN IF IsDir(f, event.p1) THEN check_dir(root, event.p2)
                 ELSE check_file(root, event.p2, f)
            ELSE IF ~should_skip_path(event.p2)
            THEN handle_event_rename(event.p1, event.p2)
            ELSE Done
      [] event.kind = "RemoveFolder" /\ ~should_skip_path(event.p1) ->
            handle_event_remove(event.p1, TRUE)
      [] event.kind = "RemoveFile" /\ ~should_skip_path(event.p1) ->
            handle_event_remove(event.p1, FALSE)
      [] OTHER -> Done

\* A send_request to which a CantHandle response is fatal.
send_request_strict(resp, next) ==
    IF resp.kind = "Ok" THEN next ELSE Fatal

\* send_request: Ok goes on, CantHandle is a warning, anything else is a
\* protocol violation.
send_request(resp, next) ==
    CASE resp.kind = "Ok" -> next
      [] resp.kind = "CantHandle" -> Warn
      [] OTHER -> Fatal

\* check_file after the response to Check
check_file_response(root, c, resp) ==
    CASE resp.kind = "Ok" -> Done
      [] resp.kind = "Different" ->
            transfer_delta_with_mmap(root, c.path, c.mmap, c.shasum, resp.signature)
      [] resp.kind = "NeedContents" ->
            transfer_contents_with_mmap(root, c.path, c.mmap, c.shasum, FALSE)
      [] resp.kind = "CantHandle" -> Warn

\* A transfer_contents_with_mmap to which a CantHandle response is a protocol
\* violation like any other response that is not Ok.
contents_response_strict(c, resp) ==
    IF resp.kind = "Ok"
    THEN IF c.n < c.num_chunks
         THEN Out([c EXCEPT !.n = c.n + 1], <<ContentsRequest(c, c.n + 1)>>, FALSE, FALSE)
         ELSE Done
    ELSE Fatal

\* transfer_contents_with_mmap after the response to chunk c.n
contents_response(c, resp) ==
    send_request(resp,
        IF c.n < c.num_chunks
        THEN Out([c EXCEPT !.n = c.n + 1], <<ContentsRequest(c, c.n + 1)>>, FALSE, FALSE)
        ELSE Done)

\* A transfer_delta_with_mmap that does not fall back: NeedContents on the last
\* chunk is taken for an unexpected response.
delta_response_without_fallback(root, c, resp) ==
    CASE resp.kind = "Ok" ->
            IF c.n < c.num_chunks
            THEN Out([c EXCEPT !.n = c.n + 1], <<DeltaRequest(c, c.n + 1)>>, FALSE, FALSE)
            ELSE Done
      [] resp.kind = "CantHandle" -> Warn
      [] OTHER -> Fatal

\* A transfer_delta_with_mmap that answers NeedContents by sending the delta
\* again.
delta_response_restarting(root, c, resp) ==
    CASE resp.kind = "Ok" ->
            IF c.n < c.num_chunks
            THEN Out([c EXCEPT !.n = c.n + 1], <<DeltaRequest(c, c.n + 1)>>, FALSE, FALSE)
            ELSE Done
      [] resp.kind = "NeedContents" /\ c.n = c.num_chunks ->
            transfer_delta_with_mmap(root, c.path, c.mmap, c.shasum, c.signature)
      [] resp.kind = "CantHandle" -> Warn
      [] OTHER -> Fatal

\* transfer_delta_with_mmap after the response to chunk c.n
delta_response(root, c, resp) ==
    LET go_on == IF c.n < c.num_chunks
                 THEN Out([c EXCEPT !.n = c.n + 1], <<DeltaRequest(c, c.n + 1)>>,
                          FALSE, FALSE)
                 ELSE Done
    IN  CASE resp.kind = "Ok" -> go_on
          [] resp.kind = "NeedContents" /\ c.n = c.num_chunks ->
                \* apply delta failed
                transfer_contents_with_mmap(root, c.path, c.mmap, c.shasum, TRUE)
          [] resp.kind = "CantHandle" -> Warn
          [] OTHER -> Fatal

\* check_dir, handle_event_remove, handle_event_rename after their response
simple_response(resp) == send_request(resp, Done)

\* -------------------------------------------------------------------- state
VARIABLES
    fs,         \* the filesystem: FsPaths -> node
    store,      \* the receiver's chunk store
    requests,   \* requests sent and not yet handled, in send order
    responses,  \* responses produced and not yet received, in order
    nextId,     \* the next fresh request id
    phase,      \* the sender: "sync", "watch" or "fatal"; "client" when the
                \* receiver is driven by a client other than the sender
    walk,       \* the entries the walk of initial_sync still has to yield
    events,     \* the watcher's events not yet received
    cur,        \* the sender's position in the current entry or event
    warned,     \* the sender logged a handler-local error
    nEvents,    \* changes made to the source tree so far
    missed,     \* those of them made before the watcher existed
    nTamper,    \* changes made to the destination by another process
    unsent,     \* the source paths created, modified or removed since the
                \* sender last sent a request about them
    handler,    \* the receiver's process: whether it listens on a socket, and
                \* where it is in the loop of its main (accept, serve, exit)
    prev        \* the request the receiver handled in the last step, with the
                \* filesystem and store it found and its response; or the
                \* response the sender took in the last step, with the position
                \* it was in; empty after any other step

vars == <<fs, store, requests, responses, nextId, phase, walk, events, cur, warned,
          nEvents, missed, nTamper, unsent, handler, prev>>

NoPrev == [on |-> FALSE]
\* transfer-handler.rs main: the receiver serving a connection, on stdin/stdout
\* or on an accepted socket
Serving(listen) == [listen |-> listen, at |-> "serve", failed |-> FALSE]
\* what `prev` holds after a step in which the sender took a response: the
\* response and the position the sender was in
Got(resp, c) == [on |-> FALSE, resp |-> resp, cur |-> c]
Src(n) == SrcRoot \o <<n>>
Dst(n) == DstRoot \o <<n>>

\* The trees before the sender starts: a regular file "a" and a hidden file in
\* the source; the destination root exists (the handler's main creates it)
\* with "a" absent or a file of any content.
StartFs(C) ==
    {[p \in FsPaths |->
        CASE p \in {<<"/">>, SrcRoot, DstRoot} -> DirNode
          [] p = Src("a") -> FileNode(c)
          [] p = Src(".h") -> FileNode(<<>>)
          [] p = Dst("a") -> d
          [] OTHER -> NoNode] :
        c \in C, d \in {NoNode} \cup {FileNode(x) : x \in C}}

Start(C) ==
    /\ fs \in StartFs(C)
    /\ store = EmptyStore
    /\ requests = <<>> /\ responses = <<>> /\ nextId = 1
    /\ phase = "sync" /\ walk = {SrcRoot} /\ events = <<>>
    /\ cur = Idle /\ warned = FALSE
    /\ nEvents = 0 /\ missed = 0 /\ nTamper = 0
    /\ handler = Serving(FALSE) /\ unsent = {}
    /\ prev = NoPrev

Init == Start(Contents)

\* The same with the hidden entry of the source a file or a directory.
InitWatch ==
    \E hidden \in {FileNode(<<>>), DirNode} :
        /\ fs \in {[f EXCEPT ![Src(".h")] = hidden] : f \in StartFs(WriteContents)}
        /\ store = EmptyStore
        /\ requests = <<>> /\ responses = <<>> /\ nextId = 1
        /\ phase = "sync" /\ walk = {SrcRoot} /\ events = <<>>
        /\ cur = Idle /\ warned = FALSE
        /\ nEvents = 0 /\ missed = 0 /\ nTamper = 0
        /\ handler = Serving(FALSE) /\ unsent = {}
        /\ prev = NoPrev

\* The source path a request of the sender is about.
Subject(req) == Resolve(Join(SrcRoot, req.path))

\* The sender takes the step `out`: requests go out with fresh ids.
Commit(out) ==
    /\ cur' = out.cur
    /\ requests' = requests \o [i \in 1..Len(out.send) |->
                                  [out.send[i] EXCEPT !.id = nextId + i - 1]]
    /\ nextId' = nextId + Len(out.send)
    /\ warned' = (warned \/ out.warn)
    /\ phase' = IF out.fatal THEN "fatal" ELSE phase
    /\ unsent' = unsent \ {Subject(out.send[i]) : i \in 1..Len(out.send)}

\* ignore::Walk: the root, then the entries below it that are not hidden, in
\* the order the directory lists them.
Listing(f) == {p \in FsPaths : Parent(p) = SrcRoot /\ f[p].k # "none"
                               /\ ~should_skip_path(p)}

\* initial_sync: one iteration of the walk
InitialSyncEntry(e) ==
    /\ phase = "sync" /\ cur = Idle /\ e \in walk
    /\ walk' = IF e = SrcRoot THEN Listing(fs) ELSE walk \ {e}
    /\ Commit(handle_entry(SrcRoot, e, fs))
    /\ prev' = NoPrev
    /\ UNCHANGED <<handler, fs, store, responses, events, nEvents, missed, nTamper>>

\* A main that starts the watcher loop without awaiting initial_sync.
InitialSyncDoneEarly ==
    /\ phase = "sync"
    /\ phase' = "watch"
    /\ prev' = NoPrev
    /\ UNCHANGED <<unsent, handler, fs, store, requests, responses, nextId, walk, events, cur,
                   warned, nEvents, missed, nTamper>>

\* initial_sync returns Ok; main starts the watcher
InitialSyncDone ==
    /\ phase = "sync" /\ cur = Idle /\ walk = {}
    /\ phase' = "watch"
    /\ prev' = NoPrev
    /\ UNCHANGED <<unsent, handler, fs, store, requests, responses, nextId, walk, events, cur, warned,
                   nEvents, missed, nTamper>>

\* main: rx.recv() and handle_fs_event
HandleFsEvent ==
    /\ phase = "watch" /\ cur = Idle /\ events # <<>>
    /\ events' = Tail(events)
    /\ Commit(handle_fs_event(SrcRoot, Head(events), fs))
    /\ prev' = NoPrev
    /\ UNCHANGED <<handler, fs, store, responses, walk, nEvents, missed, nTamper>>

\* The sender receives the response it awaits.
Receive(out) ==
    /\ phase # "fatal" /\ responses # <<>>
    /\ responses' = Tail(responses)
    /\ Commit(out)
    /\ prev' = Got(Head(responses), cur)
    /\ UNCHANGED <<handler, fs, store, walk, events, nEvents, missed, nTamper>>

CheckFileResponse ==
    /\ cur.op = "check_file"
    /\ Receive(check_file_response(SrcRoot, cur, Head(responses)))

ContentsResponse ==
    /\ cur.op = "contents"
    /\ Receive(contents_response(cur, Head(responses)))

DeltaResponse ==
    /\ cur.op = "delta"
    /\ Receive(delta_response(SrcRoot, cur, Head(responses)))

SimpleResponse ==
    /\ cur.op \in {"check_dir", "remove", "rename"}
    /\ Receive(simple_response(Head(responses)))

\* The receiver serves the next request (pipeline::Server with transfer_handler).
TransferHandler ==
    /\ handler.at = "serve" /\ requests # <<>>
    /\ LET req == Head(requests)
           res == transfer_handler(DstRoot, req, fs, store)
       IN  /\ fs' = res.fs
           /\ store' = res.store
           /\ responses' = Append(responses, Response(req.id, res))
           /\ prev' = [on |-> TRUE, req |-> req, fs |-> fs, store |-> store,
                       resp |-> Response(req.id, res)]
    /\ requests' = Tail(requests)
    /\ UNCHANGED <<unsent, handler, nextId, phase, walk, events, cur, warned, nEvents, missed, nTamper>>

\* ------------------------------------------------------------- environment
\* A change of the source tree by a user process.  The watcher exists once
\* initial_sync has returned; from then on the change is also an event.  These
\* changes replace or remove the file as a whole, which leaves a mapping of the
\* old file as it was, so one made in the middle of an exchange shows as one
\* made right after it; a write into the mapped file is SrcOverwrite.
Event(kind, p1, p2) == [kind |-> kind, p1 |-> p1, p2 |-> p2]

\* The path an event tells the creation, modification or removal of.
Changed(ev) ==
    IF ev.kind \in {"CreateFile", "CreateFolder", "ModifyData", "RemoveFile",
                    "RemoveFolder"}
    THEN {ev.p1} ELSE {}

SrcChange(f, ev) ==
    /\ nEvents < MaxEvents /\ phase # "fatal"
    /\ cur = Idle /\ requests = <<>> /\ responses = <<>>
    /\ nEvents' = nEvents + 1
    /\ missed' = IF phase = "watch" THEN missed ELSE missed + 1
    /\ fs' = f
    /\ events' = IF phase = "watch" THEN Append(events, ev) ELSE events
    /\ unsent' = unsent \cup Changed(ev)
    /\ prev' = NoPrev
    /\ UNCHANGED <<handler, store, requests, responses, nextId, phase, walk, cur, warned, nTamper>>

SrcCreateFile(n, c) ==
    /\ ~Exists(fs, Src(n))
    /\ SrcChange([fs EXCEPT ![Src(n)] = FileNode(c)], Event("CreateFile", Src(n), <<>>))

SrcCreateFolder(n) ==
    /\ ~Exists(fs, Src(n))
    /\ SrcChange([fs EXCEPT ![Src(n)] = DirNode], Event("CreateFolder", Src(n), <<>>))

SrcModify(n, c) ==
    /\ IsFile(fs, Src(n)) /\ fs[Src(n)].c # c
    /\ SrcChange([fs EXCEPT ![Src(n)] = FileNode(c)], Event("ModifyData", Src(n), <<>>))

SrcTouch(n) ==
    /\ Exists(fs, Src(n))
    /\ SrcChange(fs, Event("ModifyMetadata", Src(n), <<>>))

SrcRemove(n) ==
    /\ Exists(fs, Src(n))
    /\ SrcChange([fs EXCEPT ![Src(n)] = NoNode],
                 Event(IF IsDir(fs, Src(n)) THEN "RemoveFolder" ELSE "RemoveFile",
                       Src(n), <<>>))

SrcRename(n, m) ==
    /\ n # m /\ Exists(fs, Src(n)) /\ fs_rename(fs, Src(n), Src(m)).ok
    /\ SrcChange(fs_rename(fs, Src(n), Src(m)).fs, Event("Rename", Src(n), Src(m)))

\* A user process overwrites in place a byte of the file the sender has mapped,
\* in the middle of the exchange for it.  The mapping is private and read-only
\* (map_copy_read_only, lib.rs): whether it shows a later write to the file is
\* unspecified, so the mapped bytes either stay or become the file's.
SrcOverwrite(i, shown) ==
    /\ nEvents < MaxEvents /\ phase # "fatal"
    /\ cur.op \in {"check_file", "delta", "contents"}
    /\ requests = <<>> /\ responses # <<>>
    /\ IsFile(fs, cur.path) /\ i <= Len(fs[cur.path].c)
    /\ Len(fs[cur.path].c) = Len(cur.mmap)
    /\ LET written == [fs[cur.path].c EXCEPT ![i] = 1 - @]
       IN  /\ fs' = [fs EXCEPT ![cur.path] = FileNode(written)]
           /\ cur' = IF ~shown THEN cur
                     ELSE IF cur.op = "contents"
                     THEN [cur EXCEPT !.mmap = written, !.stream = written]
                     ELSE [cur EXCEPT !.mmap = written]
    /\ nEvents' = nEvents + 1
    /\ missed' = IF phase = "watch" THEN missed ELSE missed + 1
    /\ events' = IF phase = "watch"
                 THEN Append(events, Event("ModifyData", cur.path, <<>>))
                 ELSE events
    /\ unsent' = unsent \cup {cur.path}
    /\ prev' = NoPrev
    /\ UNCHANGED <<handler, store, requests, responses, nextId, phase, walk, warned, nTamper>>

\* Another process overwrites a byte of a destination file in place while the
\* sender is in the middle of the exchange for it (between two requests of the
\* exchange).
DestChange(i) ==
    /\ nTamper < MaxTamper
    /\ cur.op \in {"check_file", "delta", "contents"}
    /\ requests = <<>> /\ responses # <<>>
    /\ LET p == Join(DstRoot, cur.rel)
       IN  /\ IsFile(fs, p) /\ i <= Len(fs[p].c)
           /\ fs' = [fs EXCEPT ![p] = FileNode([fs[p].c EXCEPT ![i] = 1 - @])]
    /\ nTamper' = nTamper + 1
    /\ prev' = NoPrev
    /\ UNCHANGED <<unsent, handler, store, requests, responses, nextId, phase, walk, events, cur, warned,
                   nEvents, missed>>

Sender ==
    \/ \E e \in walk : InitialSyncEntry(e)
    \/ InitialSyncDone
    \/ CheckFileResponse
    \/ ContentsResponse
    \/ DeltaResponse
    \/ SimpleResponse

\* The initial sync of a tree that does not change, with another process
\* writing to the destination.
Next ==
    \/ Sender
    \/ TransferHandler
    \/ \E i \in 1..MaxLen : DestChange(i)

Spec == Init /\ [][Next]_vars

\* The whole run: the initial sync, then the watcher's events, with user
\* processes changing the source tree.
NextWatch ==
    \/ Sender
    \/ HandleFsEvent
    \/ TransferHandler
    \/ \E n \in Names, c \in WriteContents : SrcCreateFile(n, c)
    \/ \E n \in Names : SrcCreateFolder(n)
    \/ \E n \in Names, c \in WriteContents : SrcModify(n, c)
    \/ \E n \in Names : SrcTouch(n)
    \/ \E n \in Names : SrcRemove(n)
    \/ \E n \in Names, m \in Names : SrcRename(n, m)
    \/ \E i \in 1..MaxWriteLen, shown \in BOOLEAN : SrcOverwrite(i, shown)

SpecWatch == InitWatch /\ [][NextWatch]_vars

\* The whole run with the tasks of both programs scheduled: the sender's main
\* awaits initial_sync and then loops on the watcher's channel, the handler
\* serves every request it is given.
SpecWatchLive ==
    /\ SpecWatch
    /\ WF_vars(Sender) /\ WF_vars(HandleFsEvent) /\ WF_vars(TransferHandler)

\* ------------------------------------------------ the receiver on its own
\* The handler serves whatever a connected client sends (main of
\* transfer-handler.rs binds a socket and serves any peer).  The client here
\* sends the chunks of these uploads in any order, and requests with paths
\* that leave the root.
H01 == shasum_bytes(<<0, 1>>)
H11 == shasum_bytes(<<1, 1>>)

DeltaUploads ==
    { [stream |-> <<DeltaMagic[1], Copy(0, 2), DeltaEnd[1]>>, shasum |-> H01, file_size |-> 2],
      [stream |-> <<DeltaMagic[1], Copy(0, 2), DeltaEnd[1]>>, shasum |-> H11, file_size |-> 2],
      [stream |-> <<DeltaMagic[1], Copy(0, 2), DeltaEnd[1]>>, shasum |-> H01, file_size |-> 1],
      [stream |-> <<Lit(1), DeltaEnd[1]>>, shasum |-> H11, file_size |-> 2],
      [stream |-> <<DeltaMagic[1], Lit(1), Lit(1), DeltaEnd[1]>>, shasum |-> H11, file_size |-> 2],
      [stream |-> <<DeltaMagic[1], Lit(0), Lit(1), DeltaEnd[1]>>, shasum |-> H01, file_size |-> 2] }

ClientDelta ==
    { Request(<<"a">>, "File", "Delta", <<>>,
              Transfer("Delta", Chunk(u.stream, n), u.shasum, u.file_size, Len(u.stream))) :
        u \in DeltaUploads, n \in 1..2 } \ 
    { Request(<<"a">>, "File", "Delta", <<>>,
              Transfer("Delta", <<>>, u.shasum, u.file_size, Len(u.stream))) :
        u \in DeltaUploads }

ClientContents ==
    { Request(<<"a">>, "File", "Contents", <<>>, Transfer("Contents", d, h, 2, 2)) :
        d \in {<<0>>, <<1>>}, h \in {H01, H11} }
    \cup { Request(<<"a">>, "File", "Contents", <<>>, Transfer("Contents", <<0, 1>>, H01, 2, 2)) }

ClientOther ==
    { Request(<<"a">>, "File", "Check", <<>>, Transfer("Empty", <<>>, h, None, None)) :
        h \in {H01, H11} }
    \cup { Request(<<"b">>, "Dir", "Check", <<>>, NoTransfer),
           Request(<<"a">>, "File", "Remove", <<>>, NoTransfer),
           Request(<<"b">>, "Dir", "Remove", <<>>, NoTransfer),
           Request(<<"a">>, "File", "Rename", <<"b">>, NoTransfer),
           Request(<<"b">>, "File", "Rename", <<"a">>, NoTransfer) }

\* paths that are absolute or hold a ".." component
ClientEscaping ==
    { Request(Src("b"), "Dir", "Check", <<>>, NoTransfer),
      Request(Src("a"), "File", "Remove", <<>>, NoTransfer),
      Request(<<"..", "src", "a">>, "File", "Remove", <<>>, NoTransfer),
      Request(Src("a"), "File", "Contents", <<>>, Transfer("Contents", <<1>>, H11, 2, 2)),
      Request(<<"a">>, "File", "Rename", Src("b"), NoTransfer),
      Request(Src("a"), "File", "Rename", <<"b">>, NoTransfer) }

\* requests a handler refuses before it touches the filesystem, a Check(File)
\* of a path that may be a directory, and a Check(Dir) two levels down
ClientMalformed ==
    { Request(<<"a">>, "Symlink", "Check", <<>>, NoTransfer),
      Request(<<"a">>, "File", "Check", <<>>, NoTransfer),
      Request(<<"a">>, "Dir", "Contents", <<>>, Transfer("Contents", <<0>>, H01, 2, 2)),
      Request(<<"a">>, "File", "Contents", <<>>, NoTransfer),
      Request(<<"a">>, "File", "Delta", <<>>, Transfer("Contents", <<0>>, H01, 2, 2)),
      Request(<<"a">>, "File", "Delta", <<>>, Transfer("Delta", <<0>>, H01, 2, None)),
      Request(<<"a">>, "File", "Contents", <<>>, Transfer("Delta", <<0>>, H01, 2, 2)),
      Request(<<"a">>, "File", "Contents", <<>>, Transfer("Contents", <<0>>, H01, None, 2)),
      Request(<<"a">>, "Dir", "Delta", <<>>, Transfer("Delta", <<0>>, H01, 2, 2)),
      Request(<<"a">>, "File", "Delta", <<>>, NoTransfer),
      Request(<<"a">>, "File", "Delta", <<>>, Transfer("Delta", <<0>>, H01, None, 2)),
      Request(<<"b">>, "File", "Check", <<>>, Transfer("Empty", <<>>, H01, None, None)),
      Request(<<"b", "a">>, "Dir", "Check", <<>>, NoTransfer) }

ClientRequests ==
    ClientDelta \cup ClientContents \cup ClientOther \cup ClientEscaping
        \cup ClientMalformed

InitRecv ==
    /\ fs \in StartFs({<<0, 1>>})
    /\ store = EmptyStore
    /\ requests = <<>> /\ responses = <<>> /\ nextId = 1
    /\ phase = "client" /\ walk = {} /\ events = <<>>
    /\ cur = Idle /\ warned = FALSE
    /\ nEvents = 0 /\ missed = 0 /\ nTamper = 0
    /\ handler = Serving(FALSE) /\ unsent = {}
    /\ prev = NoPrev

\* The client sends a request once it has the response to the one before.
ClientSend(req) ==
    /\ phase = "client" /\ nextId <= MaxRequests
    /\ handler.at = "serve"
    /\ requests = <<>> /\ responses = <<>>
    /\ requests' = <<[req EXCEPT !.id = nextId]>>
    /\ nextId' = nextId + 1
    /\ prev' = NoPrev
    /\ UNCHANGED <<unsent, handler, fs, store, responses, phase, walk, events, cur, warned, nEvents, missed, nTamper>>

\* The client takes the response and notes a refusal.
ClientReceive ==
    /\ phase = "client" /\ responses # <<>>
    /\ responses' = Tail(responses)
    /\ warned' = (warned \/ Head(responses).kind = "CantHandle")
    /\ prev' = NoPrev
    /\ UNCHANGED <<unsent, handler, fs, store, requests, nextId, phase, walk, events, cur,
                   nEvents, missed, nTamper>>

NextRecv ==
    \/ \E req \in ClientRequests : ClientSend(req)
    \/ TransferHandler
    \/ ClientReceive

SpecRecv == InitRecv /\ [][NextRecv]_vars

\* ---------------------------------------------------- sender and any peer
\* The sender connected to a peer that answers each request with a response
\* of any kind (the sender takes whatever process it is connected to for the
\* receiver), over a connection that may fail.

\* two files of one and of two chunks
SendContents == {<<0>>, <<0, 1, 0, 1>>}
\* what a Different response may carry
PeerSignatures == {Signature(<<0, 1>>), Signature(<<1, 1>>), NoSig}

InitSend ==
    /\ Start(SendContents)
    /\ ~Exists(fs, Dst("a"))

PeerReply(kind, sig) ==
    /\ phase # "fatal" /\ requests # <<>>
    /\ kind = "Different" \/ sig = NoSig
    /\ responses' = Append(responses,
                           Response(Head(requests).id,
                                    Result(kind, sig, "", fs, store)))
    /\ requests' = Tail(requests)
    /\ prev' = NoPrev
    /\ UNCHANGED <<unsent, handler, fs, store, nextId, phase, walk, events, cur, warned,
                   nEvents, missed, nTamper>>

\* send returns Err: the service or the transport failed while the sender
\* awaited a response.
TransportError ==
    /\ phase # "fatal" /\ cur # Idle /\ responses = <<>>
    /\ Commit(Fatal)
    /\ prev' = NoPrev
    /\ UNCHANGED <<handler, fs, store, responses, walk, events, nEvents, missed, nTamper>>

NextSend ==
    \/ Sender
    \/ HandleFsEvent
    \/ \E kind \in {"Ok", "Different", "NeedContents", "CantHandle"},
          sig \in PeerSignatures : PeerReply(kind, sig)
    \/ TransportError
    \/ \E n \in Names, c \in SendContents : SrcCreateFile(n, c)
    \/ \E n \in Names, c \in SendContents : SrcModify(n, c)
    \/ \E n \in Names : SrcRemove(n)

SpecSend == InitSend /\ [][NextSend]_vars

\* The same with the sender's task scheduled and a peer that answers every
\* request it is given.
SpecSendLive ==
    /\ SpecSend
    /\ WF_vars(Sender)
    /\ WF_vars(\E kind \in {"Ok", "Different", "NeedContents", "CantHandle"},
                  sig \in PeerSignatures : PeerReply(kind, sig))

\* ------------------------------------------------ the receiver's connections
\* transfer-handler.rs main: the loop that takes a connection (the accepted
\* socket in listen mode, stdin/stdout else), serves it with pipeline::Server
\* and a fresh store, and goes round in listen mode.
Accepting(listen) == [listen |-> listen, at |-> "accept", failed |-> FALSE]

InitHandler ==
    /\ fs \in StartFs({<<0, 1>>})
    /\ store = EmptyStore
    /\ requests = <<>> /\ responses = <<>> /\ nextId = 1
    /\ phase = "client" /\ walk = {} /\ events = <<>>
    /\ cur = Idle /\ warned = FALSE
    /\ nEvents = 0 /\ missed = 0 /\ nTamper = 0
    /\ handler \in {Accepting(listen) : listen \in BOOLEAN}
    /\ unsent = {}
    /\ prev = NoPrev

\* main up to pipeline::Server::new: the connection is taken, the root is
\* made if it is missing, and the context gets an empty store.
Accept ==
    /\ handler.at = "accept"
    /\ requests' = <<>> /\ responses' = <<>>
    /\ IF ~Exists(fs, DstRoot)
       THEN LET made == fs_create_dir_all(fs, DstRoot)
            IN  /\ fs' = made.fs
                /\ handler' = IF made.ok THEN Serving(handler.listen)
                              ELSE [handler EXCEPT !.at = "exit", !.failed = TRUE]
       ELSE /\ fs' = fs
            /\ handler' = IF IsDir(fs, DstRoot) THEN Serving(handler.listen)
                          ELSE [handler EXCEPT !.at = "exit", !.failed = TRUE]
    /\ store' = EmptyStore
    /\ prev' = NoPrev
    /\ UNCHANGED <<unsent, nextId, phase, walk, events, cur, warned, nEvents, missed, nTamper>>

\* The peer closes the connection: the stream of requests ends, the server
\* future returns Ok; main breaks out of the loop unless it listens.
Disconnect ==
    /\ handler.at = "serve" /\ requests = <<>>
    /\ handler' = [handler EXCEPT !.at = IF handler.listen THEN "accept" ELSE "exit"]
    /\ prev' = NoPrev
    /\ UNCHANGED <<unsent, fs, store, requests, responses, nextId, phase, walk, events, cur,
                   warned, nEvents, missed, nTamper>>

\* The transport fails (a frame that does not decode, an I/O error): the
\* server future returns Err, which main returns with `?`.
TransportFailure ==
    /\ handler.at = "serve"
    /\ requests' = <<>>
    /\ handler' = [handler EXCEPT !.at = "exit", !.failed = TRUE]
    /\ prev' = NoPrev
    /\ UNCHANGED <<unsent, fs, store, responses, nextId, phase, walk, events, cur,
                   warned, nEvents, missed, nTamper>>

NextHandler ==
    \/ Accept
    \/ \E req \in ClientOther \cup ClientContents : ClientSend(req)
    \/ TransferHandler
    \/ ClientReceive
    \/ Disconnect
    \/ TransportFailure

SpecHandler == InitHandler /\ [][NextHandler]_vars

\* ============================================================== properties
DstOf(c) == Join(DstRoot, c.rel)

\* The receiver has just answered the request the sender awaits.
Answered(kind) == prev.on /\ prev.req.kind = kind /\ cur.op # "idle"

\* ---- C1 (specification Spec)
\* C1: once initial_sync has returned with no fatal error and no warning, over
\* a source tree that did not change (and a destination nobody else wrote to),
\* every regular file of the source that is not ignored is a file of the
\* destination with the same bytes, whatever the source content and whatever
\* the destination held before.
C1_InitialSyncCopiesEveryFile ==
    (phase = "watch" /\ ~warned /\ nTamper = 0) =>
        \A n \in Names :
            (IsFile(fs, Src(n)) /\ ~should_skip_path(Src(n))) =>
                IsFile(fs, Dst(n)) /\ fs[Dst(n)].c = fs[Src(n)].c

\* ---- C3 (specification Spec)
\* C3: when the receiver has handled the last Delta chunk of an exchange during
\* which nobody else wrote to the destination, its response is Ok and the
\* destination file holds the bytes of the sender's snapshot, for a delta of
\* one chunk and for a delta of several.
C3_DeltaAppliedOk ==
    (Answered("Delta") /\ cur.op = "delta" /\ cur.n = cur.num_chunks /\ nTamper = 0) =>
        /\ prev.resp.kind = "Ok"
        /\ IsFile(fs, DstOf(cur)) /\ fs[DstOf(cur)].c = cur.mmap

\* ---- C4 (specification Spec)
\* The sender takes the response it awaits.
SenderReceives(kind) ==
    responses # <<>> /\ responses' = Tail(responses) /\ Head(responses).kind = kind

\* The requests sent in this step are exactly chunk n of the Contents upload of
\* the snapshot `mmap` under `shasum`.
SendsContentsChunk(c, n) ==
    /\ Len(requests') = Len(requests) + 1
    /\ LET r == requests'[Len(requests')]
       IN  /\ r.kind = "Contents" /\ r.path = c.rel /\ r.file_type = "File"
           /\ r.transfer.kind = "Contents"
           /\ r.transfer.shasum = c.shasum
           /\ r.transfer.file_size = Len(c.mmap)
           /\ r.transfer.data =
                SubSeq(c.mmap, (n - 1) * FILE_CHUNK_SIZE + 1,
                       Min(n * FILE_CHUNK_SIZE, Len(c.mmap)))
    /\ cur'.op = "contents" /\ cur'.mmap = c.mmap /\ cur'.shasum = c.shasum
    /\ cur'.path = c.path /\ cur'.n = n

C4_FallbackRequests ==
    /\ (cur.op = "delta" /\ cur.n = cur.num_chunks /\ SenderReceives("NeedContents"))
          => SendsContentsChunk(cur, 1)
    /\ (cur.op = "contents" /\ cur.fallback /\ cur.n * FILE_CHUNK_SIZE < Len(cur.mmap)
          /\ SenderReceives("Ok"))
          => SendsContentsChunk(cur, cur.n + 1)

C4_FallbackDone ==
    (Answered("Contents") /\ cur.op = "contents" /\ cur.fallback
        /\ cur.n * FILE_CHUNK_SIZE >= Len(cur.mmap)
        /\ prev.resp.kind = "Ok" /\ nTamper = 1) =>
        IsFile(fs, DstOf(cur)) /\ fs[DstOf(cur)].c = cur.mmap

\* C4: when the response to the last Delta chunk is NeedContents, the requests
\* the sender sends next are the Contents chunks, in order, of the snapshot and
\* shasum it had for the delta (it sends no Check and maps no file again), and
\* when the last of them is answered Ok the destination file holds the bytes
\* of the snapshot.  (The one write of another process to the destination is
\* the one that made the delta fail.)
C4_NeedContentsFallsBack == [][C4_FallbackRequests]_vars /\ []C4_FallbackDone

\* a fallback upload of two chunks has been answered Ok to its end
C4_Witness ==
    /\ Answered("Contents") /\ cur.op = "contents" /\ cur.fallback
    /\ cur.n = 2 /\ cur.num_chunks = 2 /\ prev.resp.kind = "Ok"
    /\ fs[DstOf(cur)].c = cur.mmap

\* ---- C2 (specification SpecWatch)
Quiet == phase = "watch" /\ cur = Idle /\ events = <<>>
         /\ requests = <<>> /\ responses = <<>>

\* C2: when the sender has consumed every event of the changes made to the
\* source after the initial sync, with no transport error, each path of the
\* source that is not ignored is at the destination what it is at the source:
\* absent, a directory, or a file with the same bytes.  (Stated for the runs
\* where every change was made while the watcher existed and no source file is
\* empty.)
C2_EventsConverge ==
    (Quiet /\ missed = 0
       /\ \A n \in Names : IsFile(fs, Src(n)) => fs[Src(n)].c # <<>>) =>
        \A n \in Names : ~should_skip_path(Src(n)) => fs[Dst(n)] = fs[Src(n)]

\* ---- C10 (specification SpecWatch)
\* C10: every request the sender has sent carries a path, and for Rename a
\* new_path, that is relative to the source root, never an absolute path.
C10_RequestPathsRelative ==
    \A i \in 1..Len(requests) :
        ~IsAbsolute(requests[i].path) /\ ~IsAbsolute(requests[i].new_path)

\* --------------------------------------- properties of the receiver alone
\* (specification SpecRecv)
\* The path the receiver works on for the request it has just handled.
PrevPath == Resolve(Join(DstRoot, prev.req.path))
Handled(kind) == prev.on /\ prev.req.kind = kind

\* The request handled is a chunk of an upload: a Contents or Delta request
\* for a file with a transfer of its kind and the sizes that kind needs.
ContentsChunk ==
    /\ Handled("Contents") /\ prev.req.file_type = "File"
    /\ prev.req.transfer.kind = "Contents" /\ prev.req.transfer.file_size # None
DeltaChunk ==
    /\ Handled("Delta") /\ prev.req.file_type = "File"
    /\ prev.req.transfer.kind = "Delta" /\ prev.req.transfer.file_size # None
    /\ prev.req.transfer.data_size # None

\* ---- C5
\* The delta buffered for the path once the chunk of the request is in.
PrevDelta ==
    IF PrevPath \in DOMAIN prev.store.deltas
       /\ prev.store.deltas[PrevPath].shasum = prev.req.transfer.shasum
    THEN prev.store.deltas[PrevPath].delta \o prev.req.transfer.data
    ELSE prev.req.transfer.data

\* C5: when the delta of a Delta request is complete and the destination file
\* can be mapped, a failure of its application - apply_limited returns an error
\* (malformed delta, output over file_size) or the output's hash is not
\* transfer.shasum - is answered NeedContents, never CantHandle.
C5_DeltaFailureIsNeedContents ==
    (DeltaChunk /\ Len(PrevDelta) = prev.req.transfer.data_size
        /\ IsFile(prev.fs, PrevPath)) =>
        LET applied == apply_limited(prev.fs[PrevPath].c, PrevDelta,
                                     prev.req.transfer.file_size)
        IN  (~applied.ok \/ shasum_bytes(applied.out) # prev.req.transfer.shasum)
                => prev.resp.kind = "NeedContents"

\* ---- C6
\* The FileEntry the chunk of the request is appended to: the one of the path
\* if it is of the same upload, else a fresh one.
PrevEntry ==
    IF PrevPath \in DOMAIN prev.store.files
       /\ prev.store.files[PrevPath].shasum = prev.req.transfer.shasum
    THEN prev.store.files[PrevPath]
    ELSE [shasum |-> prev.req.transfer.shasum, hasher |-> <<>>, num_bytes |-> 0,
          at |-> PrevPath]

\* C6: for a Contents chunk (no I/O error), with `total` the bytes of its upload
\* received so far including it: total below file_size is answered Ok; total
\* equal to file_size is answered Ok if the hash of all the upload's bytes is
\* transfer.shasum and CantHandle (data integrity) if not; and a data integrity
\* CantHandle is given on no other chunk.
C6_ContentsReplies ==
    (ContentsChunk /\ prev.resp.reason # "io") =>
        LET total == PrevEntry.num_bytes + Len(prev.req.transfer.data)
            bytes == PrevEntry.hasher \o prev.req.transfer.data
            size == prev.req.transfer.file_size
            integrity == prev.resp.kind = "CantHandle"
                         /\ prev.resp.reason = "data integrity failed"
        IN  /\ total < size => prev.resp.kind = "Ok"
            /\ total = size =>
                 IF shasum_bytes(bytes) = prev.req.transfer.shasum
                 THEN prev.resp.kind = "Ok" ELSE integrity
            /\ integrity => total = size

\* the terminal chunk of a two-chunk upload was answered Ok, and the terminal
\* chunk of another one CantHandle
C6_Witness ==
    /\ Handled("Contents") /\ PrevEntry.num_bytes = 1
    /\ Len(prev.req.transfer.data) = 1 /\ prev.req.transfer.file_size = 2
    /\ prev.resp.kind = "Ok"

C6_WitnessIntegrity ==
    /\ Handled("Contents") /\ PrevEntry.num_bytes = 1
    /\ Len(prev.req.transfer.data) = 1 /\ prev.req.transfer.file_size = 2
    /\ prev.resp.kind = "CantHandle"

\* ---- C7
\* The chunk of the request has a shasum other than the one of the path's
\* FileEntry, which holds bytes of another upload.
ContentsReset ==
    /\ ContentsChunk /\ prev.resp.reason # "io"
    /\ PrevPath \in DOMAIN prev.store.files
    /\ prev.store.files[PrevPath].shasum # prev.req.transfer.shasum

\* C7: a Contents chunk whose shasum differs from the recorded one starts the
\* file over: after it the file holds the chunk's bytes only, and the entry has
\* the new shasum, a byte count and a hasher of the chunk alone (or, when the
\* chunk is the whole upload, the entry is gone and the response tells whether
\* the chunk's hash is the shasum); a chunk of the recorded shasum adds to the
\* count and the hasher.
C7_ContentsShasumChangeResets ==
    /\ ContentsReset =>
         LET data == prev.req.transfer.data
         IN  /\ IsFile(fs, PrevPath) /\ fs[PrevPath].c = data
             /\ IF Len(data) = prev.req.transfer.file_size
                THEN /\ PrevPath \notin DOMAIN store.files
                     /\ prev.resp.kind = "Ok" <=>
                            shasum_bytes(data) = prev.req.transfer.shasum
                ELSE /\ PrevPath \in DOMAIN store.files
                     /\ store.files[PrevPath].shasum = prev.req.transfer.shasum
                     /\ store.files[PrevPath].num_bytes = Len(data)
                     /\ store.files[PrevPath].hasher = data
    /\ (ContentsChunk /\ prev.resp.reason # "io" /\ ~ContentsReset
          /\ PrevPath \in DOMAIN store.files) =>
         /\ store.files[PrevPath].num_bytes = PrevEntry.num_bytes + Len(prev.req.transfer.data)
         /\ store.files[PrevPath].hasher = PrevEntry.hasher \o prev.req.transfer.data

\* a chunk reset an entry that held a byte of another upload
C7_Witness ==
    /\ ContentsReset /\ prev.store.files[PrevPath].num_bytes = 1
    /\ PrevPath \in DOMAIN store.files /\ store.files[PrevPath].num_bytes = 1

\* ---- C8
\* C8: a Delta chunk whose shasum differs from the one of the path's DeltaEntry
\* (and which is not the whole delta) leaves a buffer holding that chunk only
\* and an entry with the new shasum.
C8_DeltaShasumChangeResets ==
    (DeltaChunk /\ PrevPath \in DOMAIN prev.store.deltas
        /\ prev.store.deltas[PrevPath].shasum # prev.req.transfer.shasum
        /\ Len(prev.req.transfer.data) # prev.req.transfer.data_size) =>
        /\ PrevPath \in DOMAIN store.deltas
        /\ store.deltas[PrevPath].delta = prev.req.transfer.data
        /\ store.deltas[PrevPath].shasum = prev.req.transfer.shasum

\* ---- C9
Escaping(p) == IsAbsolute(p) \/ HasParentDir(p)

\* C9: a request whose path or new_path is absolute or has a ".." component is
\* answered CantHandle, and no request changes an entry of the filesystem
\* outside the destination root.
C9_ReceiverStaysInRoot ==
    prev.on =>
        /\ (Escaping(prev.req.path) \/ Escaping(prev.req.new_path))
              => prev.resp.kind = "CantHandle"
        /\ \A p \in FsPaths : ~IsPrefix(DstRoot, p) => fs[p] = prev.fs[p]

\* ---- C11
\* C11: the response to a request carries the identifier of that request,
\* whatever the kind of the request and whatever the outcome (Ok, Different,
\* NeedContents or CantHandle).
C11_ResponseCarriesRequestId ==
    /\ prev.on => prev.resp.id = prev.req.id
    /\ \A i \in 1..Len(responses) : responses[i].id \in 1..(nextId - 1)

\* the third request of a connection was refused, under its own identifier
C11_Witness ==
    /\ prev.on /\ prev.req.id = 3 /\ prev.resp.id = 3
    /\ prev.resp.kind = "CantHandle" /\ responses = <<prev.resp>>

\* ---- C12
ResponseKinds == {"Ok", "Different", "NeedContents", "CantHandle"}

\* The handler of the request fails: an argument check, an I/O error or the
\* integrity check of a completed upload.
HandlerFails ==
    \/ prev.req.kind = "Check" /\ prev.req.file_type = "Symlink"
    \/ prev.req.kind = "Check" /\ prev.req.file_type = "File"
          /\ (prev.req.transfer.kind = "None" \/ IsDir(prev.fs, PrevPath))
    \/ prev.req.kind \in {"Contents", "Delta"}
          /\ (prev.req.file_type # "File" \/ prev.req.transfer.kind # prev.req.kind)
    \/ prev.req.kind = "Delta" /\ prev.req.file_type = "File"
          /\ prev.req.transfer.kind = "Delta"
          /\ (prev.req.transfer.data_size = None
              \/ (Len(PrevDelta) = prev.req.transfer.data_size
                    /\ ~IsFile(prev.fs, PrevPath)))
    \/ prev.req.kind = "Remove" /\ ~Exists(prev.fs, PrevPath)
    \/ prev.req.kind = "Contents" /\ prev.req.file_type = "File"
          /\ prev.req.transfer.kind = "Contents"
          /\ PrevEntry.num_bytes + Len(prev.req.transfer.data)
                = prev.req.transfer.file_size
          /\ shasum_bytes(PrevEntry.hasher \o prev.req.transfer.data)
                # prev.req.transfer.shasum

\* The receiver takes a request off the connection.
Serves == requests # <<>> /\ requests' = Tail(requests)

\* C12: the receiver answers every request with exactly one response, of one
\* of the four kinds; a failure of the handler is answered CantHandle and is
\* not an error of the connection: the receiver stays ready to serve the
\* request that comes next.
C12_OneResponsePerRequest ==
    /\ [][Serves => /\ Len(responses') = Len(responses) + 1
                    /\ responses'[Len(responses')].id = Head(requests).id
                    /\ responses'[Len(responses')].kind \in ResponseKinds
                    /\ phase' = phase]_vars
    /\ [](prev.on /\ HandlerFails => prev.resp.kind = "CantHandle")
    /\ [](requests # <<>> => ENABLED TransferHandler)

\* after a refused request, a later request of the connection was served
C12_Witness ==
    /\ warned /\ prev.on /\ prev.req.id = 3 /\ ~HandlerFails
    /\ prev.resp.kind = "Ok" /\ responses = <<prev.resp>>

\* ---- C13
\* The request is a Check of a file that comes with a transfer.
CheckedFile ==
    /\ Handled("Check") /\ prev.req.file_type = "File"
    /\ prev.req.transfer.kind # "None"

\* C13: a Check of a file with a transfer is answered NeedContents exactly when
\* the path does not exist, Ok exactly when it exists and the hash of its
\* content is transfer.shasum, and Different with the signature of its content
\* when it is a file of another hash; it changes neither the destination tree
\* nor the chunk store.
C13_CheckFile ==
    CheckedFile =>
        LET same == IsFile(prev.fs, PrevPath)
                    /\ shasum_bytes(prev.fs[PrevPath].c) = prev.req.transfer.shasum
        IN  /\ prev.resp.kind = "NeedContents" <=> ~Exists(prev.fs, PrevPath)
            /\ prev.resp.kind = "Ok" <=> same
            /\ (IsFile(prev.fs, PrevPath) /\ ~same) =>
                  /\ prev.resp.kind = "Different"
                  /\ prev.resp.signature = Signature(prev.fs[PrevPath].c)
            /\ fs = prev.fs /\ store = prev.store

\* a file of another hash was checked while an upload to it was under way
C13_Witness ==
    /\ CheckedFile /\ prev.resp.kind = "Different"
    /\ prev.resp.signature = Signature(<<0>>)
    /\ PrevPath \in DOMAIN store.files

C13_WitnessDirectory ==
    CheckedFile /\ IsDir(prev.fs, PrevPath) /\ prev.resp.kind = "CantHandle"

\* ---- C14
\* The requests sent and not yet answered to the sender.
Outstanding == Len(requests) + Len(responses)

\* C14: the sender has at most one request outstanding: it sends a request only
\* when the response to the one before has come, so the request the receiver
\* handles is the last one sent, identifiers are handled in the order they were
\* given out, and the response at the sender is the one to the request it waits
\* for.
C14_OneOutstandingRequest ==
    /\ [](Outstanding <= 1)
    /\ [](cur = Idle <=> Outstanding = 0)
    /\ [](\A i \in 1..Len(requests) : requests[i].id = nextId - 1)
    /\ [](\A i \in 1..Len(responses) : responses[i].id = nextId - 1)
    /\ [][nextId' # nextId => /\ requests = <<>> /\ responses' = <<>>
                              /\ Len(requests') = 1 /\ nextId' = nextId + 1]_vars
    /\ [][Serves => Head(requests).id = nextId - 1]_vars

\* the second chunk of a Contents upload is on its way, nothing else is
C14_Witness ==
    /\ cur.op = "contents" /\ cur.n = 2 /\ Len(requests) = 1 /\ responses = <<>>
    /\ requests[1].kind = "Contents" /\ requests[1].id = nextId - 1 /\ nextId > 3

\* ---- C15
\* The sender took a response in the last step, being in position op.
Received(op) == ~prev.on /\ "cur" \in DOMAIN prev /\ prev.cur.op = op

\* The sender is free for the next entry of the walk or the next event.
GoesOn ==
    /\ cur = Idle /\ requests = <<>> /\ phase # "fatal"
    /\ phase = "sync" => ENABLED Sender
    /\ (phase = "watch" /\ events # <<>>) => ENABLED HandleFsEvent

\* The sender has stopped.
Stopped == phase = "fatal" /\ cur = Idle /\ requests = <<>>

\* C15: in a Contents upload, after an Ok response the sender sends the next
\* chunk (or is done after the last); after a CantHandle response it sends no
\* further chunk of the file and goes on with the next entry or event; after a
\* NeedContents or Different response it stops (protocol violation).
C15_ContentsUploadReplies ==
    Received("contents") =>
        LET c == prev.cur
            k == prev.resp.kind
        IN  /\ (k = "Ok" /\ c.n < c.num_chunks) =>
                 /\ cur = [c EXCEPT !.n = c.n + 1] /\ phase # "fatal"
                 /\ Len(requests) = 1 /\ requests[1].kind = "Contents"
                 /\ requests[1].path = c.rel
                 /\ requests[1].transfer.data =
                        SubSeq(c.mmap, c.n * FILE_CHUNK_SIZE + 1,
                               Min((c.n + 1) * FILE_CHUNK_SIZE, Len(c.mmap)))
            /\ (k = "Ok" /\ c.n = c.num_chunks) => GoesOn
            /\ k = "CantHandle" => GoesOn /\ warned
            /\ k \in {"NeedContents", "Different"} => Stopped

\* the first of two Contents chunks was answered NeedContents: the sender stopped
C15_Witness ==
    /\ Received("contents") /\ prev.cur.n = 1 /\ prev.cur.num_chunks = 2
    /\ prev.resp.kind = "NeedContents" /\ Stopped

\* the first of two Contents chunks was refused during the initial sync
C15_WitnessRefused ==
    /\ Received("contents") /\ prev.cur.n = 1 /\ prev.cur.num_chunks = 2
    /\ prev.resp.kind = "CantHandle" /\ GoesOn /\ phase = "sync"

\* ---- C16
\* C16: in a Delta upload, after a response other than Ok (NeedContents,
\* Different or CantHandle) to a chunk that is not the last the sender stops
\* (protocol violation); NeedContents makes it fall back to Contents on the
\* last chunk only.
C16_DeltaUploadReplies ==
    Received("delta") =>
        /\ (prev.cur.n < prev.cur.num_chunks /\ prev.resp.kind # "Ok") => Stopped
        /\ (prev.resp.kind = "NeedContents" /\ cur.op = "contents")
              => prev.cur.n = prev.cur.num_chunks

\* The same without CantHandle: NeedContents or Different before the last chunk
\* stops the sender.
C16_UnexpectedKindStops ==
    Received("delta") =>
        /\ (prev.cur.n < prev.cur.num_chunks
              /\ prev.resp.kind \in {"NeedContents", "Different"}) => Stopped
        /\ (prev.resp.kind = "NeedContents" /\ cur.op = "contents")
              => prev.cur.n = prev.cur.num_chunks

\* ---- C17
\* C17: a handler-local failure in the handling of one entry or event - the
\* entry is gone or cannot be mapped, the signature of a Different response
\* cannot be read, a response is CantHandle - is logged and the sender goes on
\* with the next entry or event, no request outstanding; the sender stops only
\* on an error of the service or the transport (a failed send or a response it
\* does not expect) met while it awaited a response, and it sends no request
\* after that.
C17_HandlerLocalFailures ==
    /\ [](\A op \in {"check_dir", "check_file", "contents", "delta", "remove", "rename"} :
            (Received(op) /\ prev.resp.kind = "CantHandle") => GoesOn /\ warned)
    /\ []((Received("check_file") /\ prev.resp.kind = "Different"
             /\ prev.resp.signature = NoSig) => GoesOn /\ warned)
    /\ [][\A e \in walk :
            (phase = "sync" /\ cur = Idle /\ walk' = walk \ {e} /\ e # SrcRoot
               /\ ~Exists(fs, e) /\ fs' = fs) => (GoesOn /\ warned)']_vars
    /\ [][(phase = "watch" /\ cur = Idle /\ events # <<>> /\ events' = Tail(events)
             /\ Head(events).kind \in {"CreateFile", "ModifyData"}
             /\ ~should_skip_path(Head(events).p1)
             /\ ~IsFile(fs, Head(events).p1)) => (GoesOn /\ warned)']_vars
    /\ [][(phase # "fatal" /\ phase' = "fatal") =>
             /\ cur # Idle
             /\ \/ responses = <<>>
                \/ Head(responses).kind \in {"NeedContents", "Different"}]_vars
    /\ [](phase = "fatal" => cur = Idle)
    /\ [][phase = "fatal" => nextId' = nextId /\ requests' = requests]_vars

\* an entry of the walk was gone when it was handled; the sender went on to
\* the end of the walk and waits for events
C17_Witness ==
    /\ warned /\ phase = "watch" /\ missed = 1 /\ GoesOn
    /\ ~Exists(fs, Src("a")) /\ nextId = 2

\* after a refused Check of the root the sender sent the Check of a file
C17_WitnessRefused ==
    /\ warned /\ phase = "sync" /\ nextId = 3 /\ Len(requests) = 1
    /\ requests[1].kind = "Check" /\ requests[1].file_type = "File"

\* ---- C18
\* The content a shasum was computed from (shasum_bytes is one-to-one here).
Hashed(shasum) == shasum[2]

\* C18: every request of one run of the check-and-transfer of a file - the
\* Check, the Delta chunks, the Contents chunks, those of the fallback too -
\* carries the shasum captured with the snapshot at the start of the run, and
\* the Contents chunks are the consecutive slices of the content that shasum
\* was computed from.
C18_SameSnapshotAndShasum ==
    /\ [][(cur.op \in {"check_file", "delta", "contents"}
             /\ cur'.op \in {"delta", "contents"}) => cur'.shasum = cur.shasum]_vars
    /\ [](\A i \in 1..Len(requests) :
            requests[i].transfer.kind # "None" =>
                /\ requests[i].transfer.shasum = cur.shasum
                /\ requests[i].kind = "Contents" =>
                     requests[i].transfer.data =
                        SubSeq(Hashed(cur.shasum), (cur.n - 1) * FILE_CHUNK_SIZE + 1,
                               Min(cur.n * FILE_CHUNK_SIZE, Len(Hashed(cur.shasum)))))

\* ---- C19
\* The n-th slice of at most FILE_CHUNK_SIZE symbols of a stream.
Slice(stream, n) ==
    SubSeq(stream, (n - 1) * FILE_CHUNK_SIZE + 1, Min(n * FILE_CHUNK_SIZE, Len(stream)))

\* C19: a Contents or Delta chunk of the sender has file_size = the length of
\* the snapshot and data_size = the length of the whole stream (the snapshot
\* for Contents, the delta for Delta); chunk n is the n-th slice of at most
\* FILE_CHUNK_SIZE symbols of the stream and no chunk is empty, so that what the
\* receiver has gathered with a chunk equals the announced total on the last
\* chunk and on no chunk before it.
C19_ChunkSizes ==
    /\ \A i \in 1..Len(requests) :
          requests[i].kind \in {"Contents", "Delta"} =>
              LET t == requests[i].transfer
              IN  /\ cur.op = (IF requests[i].kind = "Contents" THEN "contents" ELSE "delta")
                  /\ t.file_size = Len(cur.mmap)
                  /\ t.data_size = Len(cur.stream)
                  /\ requests[i].kind = "Contents" => cur.stream = cur.mmap
                  /\ t.data = Slice(cur.stream, cur.n)
                  /\ Len(t.data) \in 1..FILE_CHUNK_SIZE
                  /\ cur.n \in 1..cur.num_chunks
                  /\ (cur.n = cur.num_chunks) <=>
                        (cur.n - 1) * FILE_CHUNK_SIZE + Len(t.data) = Len(cur.stream)
    /\ Handled("Contents") =>
          /\ PrevEntry.num_bytes = (cur.n - 1) * FILE_CHUNK_SIZE
          /\ (PrevEntry.num_bytes + Len(prev.req.transfer.data)
                 = prev.req.transfer.file_size) <=> (cur.n = cur.num_chunks)
    /\ Handled("Delta") =>
          /\ Len(PrevDelta) = (cur.n - 1) * FILE_CHUNK_SIZE + Len(prev.req.transfer.data)
          /\ (Len(PrevDelta) = prev.req.transfer.data_size) <=> (cur.n = cur.num_chunks)

\* the receiver has the first chunk of a two-chunk Contents upload and the
\* first chunk of a two-chunk Delta upload
C19_Witness ==
    /\ Handled("Contents") /\ cur.n = 1 /\ cur.num_chunks = 2
    /\ prev.req.transfer.file_size = 5 /\ Len(prev.req.transfer.data) = 3

C19_WitnessDelta ==
    /\ Handled("Delta") /\ cur.n = 2 /\ cur.num_chunks = 2
    /\ Len(PrevDelta) = prev.req.transfer.data_size
    /\ prev.req.transfer.file_size # prev.req.transfer.data_size

\* ---- C20
PrevTo == Resolve(Join(DstRoot, prev.req.new_path))

\* p is `from` or below it, and q is the same place at or below `to`.
Moved(p, q) ==
    /\ IsPrefix(PrevPath, p)
    /\ q = PrevTo \o SubSeq(p, Len(PrevPath) + 1, Len(p))

\* C20: for a Rename from `from` to `to`: if `to` does not exist the tree is
\* left as it is and the response is Ok; if `to` exists and the response is Ok,
\* what was at or below `to` is gone, `to` holds what `from` held, `from` is
\* gone and nothing else has changed; the response is Ok when `from` exists (no
\* call of the filesystem fails).
C20_Rename ==
    Handled("Rename") =>
        IF ~Exists(prev.fs, PrevTo)
        THEN fs = prev.fs /\ prev.resp.kind = "Ok"
        ELSE /\ (Exists(prev.fs, PrevPath) /\ ~IsPrefix(PrevTo, PrevPath)
                   /\ ~IsPrefix(PrevPath, PrevTo)) => prev.resp.kind = "Ok"
             /\ prev.resp.kind = "Ok" =>
                  \A q \in FsPaths :
                     fs[q] = IF IsPrefix(PrevPath, q) THEN NoNode
                             ELSE IF IsPrefix(PrevTo, q)
                             THEN IF \E p \in FsPaths : Moved(p, q)
                                  THEN prev.fs[CHOOSE p \in FsPaths : Moved(p, q)]
                                  ELSE NoNode
                             ELSE prev.fs[q]

\* a file was renamed to a directory that held a directory
C20_Witness ==
    /\ Handled("Rename") /\ prev.resp.kind = "Ok"
    /\ IsDir(prev.fs, PrevTo) /\ IsDir(prev.fs, PrevTo \o <<"a">>)
    /\ IsFile(prev.fs, PrevPath) /\ fs[PrevTo] = prev.fs[PrevPath]
    /\ ~Exists(fs, PrevPath) /\ ~Exists(fs, PrevTo \o <<"a">>)

\* a Rename to a path that did not exist left the file where it was
C20_WitnessAbsent ==
    /\ Handled("Rename") /\ prev.resp.kind = "Ok" /\ ~Exists(prev.fs, PrevTo)
    /\ IsFile(fs, PrevPath) /\ ~Exists(fs, PrevTo)

\* ---- C21
\* The sender takes the next event of the watcher.
HandlesEvent ==
    /\ phase = "watch" /\ cur = Idle /\ events # <<>> /\ events' = Tail(events)

\* What the sender sends in the step is one request of the kind, for the file
\* type.
Sends(kind, file_type) ==
    /\ Len(requests') = Len(requests) + 1
    /\ requests'[Len(requests')].kind = kind
    /\ requests'[Len(requests')].file_type = file_type

SendsNothing == requests' = requests /\ nextId' = nextId /\ cur' = Idle

\* The first Contents chunk of the file at p.
SendsFirstChunk(p) ==
    /\ Sends("Contents", "File")
    /\ requests'[Len(requests')].transfer.data =
          SubSeq(fs[p].c, 1, Min(FILE_CHUNK_SIZE, Len(fs[p].c)))

\* C21: the first request for an event on a path that is not ignored is
\* Check(Dir) for Create(Folder), the first Contents chunk for Create(File),
\* Check(File) for Modify(Data), Remove(Dir) for Remove(Folder) and
\* Remove(File) for Remove(File) (the file of a Create(File) or Modify(Data)
\* being still there); for any other class of event, and for an event on an
\* ignored path, nothing is sent.
C21_EventDispatch ==
    [][HandlesEvent =>
         LET ev == Head(events)
         IN  IF ev.kind = "Rename" THEN TRUE
             ELSE IF should_skip_path(ev.p1) THEN SendsNothing
             ELSE CASE ev.kind = "CreateFolder" -> Sends("Check", "Dir")
                    [] ev.kind = "CreateFile" ->
                          IF IsFile(fs, ev.p1) THEN SendsFirstChunk(ev.p1)
                          ELSE SendsNothing
                    [] ev.kind = "ModifyData" ->
                          IF IsFile(fs, ev.p1) THEN Sends("Check", "File")
                          ELSE SendsNothing
                    [] ev.kind = "RemoveFolder" -> Sends("Remove", "Dir")
                    [] ev.kind = "RemoveFile" -> Sends("Remove", "File")
                    [] OTHER -> SendsNothing]_vars

\* The same, a Create(File) of a file without a byte apart: whatever the sender
\* sends for a Create(File) is the first Contents chunk, and it sends one for a
\* file that has a byte.
C21_EventDispatchOfNonEmpty ==
    [][HandlesEvent =>
         LET ev == Head(events)
         IN  IF ev.kind = "Rename" THEN TRUE
             ELSE IF should_skip_path(ev.p1) THEN SendsNothing
             ELSE CASE ev.kind = "CreateFolder" -> Sends("Check", "Dir")
                    [] ev.kind = "CreateFile" ->
                          IF IsFile(fs, ev.p1) /\ fs[ev.p1].c # <<>>
                          THEN SendsFirstChunk(ev.p1)
                          ELSE SendsNothing
                    [] ev.kind = "ModifyData" ->
                          IF IsFile(fs, ev.p1) THEN Sends("Check", "File")
                          ELSE SendsNothing
                    [] ev.kind = "RemoveFolder" -> Sends("Remove", "Dir")
                    [] ev.kind = "RemoveFile" -> Sends("Remove", "File")
                    [] OTHER -> SendsNothing]_vars

\* ---- C22
\* C22: for a rename event from o to n: if o is ignored and n is not, the
\* sender sends Check(Dir) when the entry renamed is a directory and Check(File)
\* when it is a file, and no Rename; if n is ignored it sends nothing; else it
\* sends one Rename from o to n.
C22_RenameDispatch ==
    [][(HandlesEvent /\ Head(events).kind = "Rename") =>
         LET o == Head(events).p1
             n == Head(events).p2
         IN  IF should_skip_path(n) THEN SendsNothing
             ELSE IF should_skip_path(o)
             THEN CASE IsDir(fs, n) -> Sends("Check", "Dir")
                    [] IsFile(fs, n) -> Sends("Check", "File")
                    [] OTHER -> SendsNothing
             ELSE /\ Sends("Rename", requests'[Len(requests')].file_type)
                  /\ requests'[Len(requests')].path = o
                  /\ requests'[Len(requests')].new_path = n]_vars

\* The same for entries that are files.
C22_RenameDispatchOfFiles ==
    [][(HandlesEvent /\ Head(events).kind = "Rename"
          /\ ~IsDir(fs, Head(events).p2)) =>
         LET o == Head(events).p1
             n == Head(events).p2
         IN  IF should_skip_path(n) THEN SendsNothing
             ELSE IF should_skip_path(o)
             THEN CASE IsFile(fs, n) -> Sends("Check", "File")
                    [] OTHER -> SendsNothing
             ELSE /\ Sends("Rename", requests'[Len(requests')].file_type)
                  /\ requests'[Len(requests')].path = o
                  /\ requests'[Len(requests')].new_path = n]_vars

\* ---- C23
\* The request handled is a Contents or Delta request that is not a chunk of
\* an upload: its file type is not File, it has no transfer, its transfer is of
\* another kind, or a size the kind needs is missing.
Malformed ==
    /\ prev.on /\ prev.req.kind \in {"Contents", "Delta"}
    /\ \/ prev.req.file_type # "File"
       \/ prev.req.transfer.kind = "None"
       \/ prev.req.transfer.kind # prev.req.kind
       \/ prev.req.transfer.file_size = None
       \/ prev.req.kind = "Delta" /\ prev.req.transfer.data_size = None

C23_WitnessContents ==
    /\ Malformed /\ prev.req.kind = "Contents" /\ prev.req.file_type = "Dir"
    /\ prev.resp.kind = "CantHandle" /\ PrevPath \in DOMAIN store.files

\* ---- C24
\* The connection the receiver serves ends.
ConnectionEnds == handler.at = "serve" /\ handler'.at # "serve"

\* C24: in listen mode the receiver, when the connection ends - the peer
\* disconnects or the transport fails -, waits for the next connection; it
\* exits in stdio mode only.
C24_ListenModeWaitsAgain ==
    /\ [][(ConnectionEnds /\ handler.listen) => handler'.at = "accept"]_vars
    /\ [](handler.at = "exit" => ~handler.listen)

\* The same for a connection the peer closes.
C24_DisconnectWaitsAgain ==
    /\ [][(ConnectionEnds /\ handler.listen /\ ~handler'.failed)
             => handler'.at = "accept"]_vars
    /\ [](handler.at = "exit" /\ ~handler.failed => ~handler.listen)

\* ---- C25
\* C25: the watcher loop starts when the initial sync is over: the sender
\* takes no event while it walks, and it leaves the walk with no entry left,
\* every request of the walk sent and answered; it never walks again.
C25_SyncBeforeWatch ==
    /\ [][(phase = "sync" /\ phase' = "watch") =>
             (walk = {} /\ cur = Idle /\ requests = <<>> /\ responses = <<>>)]_vars
    /\ [][events' # events /\ Len(events') < Len(events) => phase = "watch"]_vars
    /\ [][phase # "sync" => phase' # "sync"]_vars
    /\ [](phase = "sync" => events = <<>>)
    /\ [](phase = "watch" => walk = {})

\* the request of an event is out, after the requests of the walk
C25_Witness ==
    /\ phase = "watch" /\ events = <<>> /\ nEvents = 1 /\ missed = 0
    /\ Len(requests) = 1 /\ requests[1].kind = "Remove" /\ nextId > 3

\* ---- C26
\* The key of the request's path in the store.
PrevKey == Join(DstRoot, prev.req.path)

\* The entries of the paths other than k are the same in the stores s and t.
SameButFor(s, t, k) ==
    /\ DOMAIN s.files \ {k} = DOMAIN t.files \ {k}
    /\ \A p \in DOMAIN s.files \ {k} : s.files[p] = t.files[p]

\* C26: the count of a FileEntry is the number of bytes of the chunks pushed
\* since the entry was made or reset, and push_file_chunk returns it;
\* remove_file returns the SHA-256 of those bytes if and only if the path has
\* an entry, and nothing else; after it the path has no entry, and the entries
\* of the other paths are as they were.
C26_StoreFileOperations ==
    /\ \A p \in DOMAIN store.files :
          store.files[p].num_bytes = Len(store.files[p].hasher)
    /\ \A p \in {Dst("a"), Src("a"), Dst("b")} :
          LET removed == remove_file(store, p)
          IN  /\ removed.some <=> p \in DOMAIN store.files
              /\ removed.some => removed.shasum = shasum_bytes(store.files[p].hasher)
              /\ ~removed.some => removed.shasum = NoSha
              /\ p \notin DOMAIN removed.store.files
              /\ SameButFor(store, removed.store, p)
              /\ removed.store.deltas = store.deltas
    /\ (ContentsChunk /\ prev.resp.reason # "io") =>
          LET data == prev.req.transfer.data
              pushed == push_file_chunk(prev.store, prev.fs, PrevKey,
                                        prev.req.transfer.shasum, data)
          IN  /\ pushed.total = PrevEntry.num_bytes + Len(data)
              /\ pushed.total = Len(PrevEntry.hasher \o data)
              /\ SameButFor(prev.store, store, PrevKey)
              /\ IF pushed.total = prev.req.transfer.file_size
                 THEN /\ PrevKey \notin DOMAIN store.files
                      /\ prev.resp.kind = "Ok" <=>
                            shasum_bytes(PrevEntry.hasher \o data)
                               = prev.req.transfer.shasum
                 ELSE /\ PrevKey \in DOMAIN store.files
                      /\ store.files[PrevKey].num_bytes = pushed.total
                      /\ store.files[PrevKey].hasher = PrevEntry.hasher \o data

\* the last chunk of an upload took the entry of its path out of the store
\* and left the entry of another path
C26_Witness ==
    /\ ContentsChunk /\ prev.resp.kind = "Ok"
    /\ PrevKey \in DOMAIN prev.store.files
    /\ prev.store.files[PrevKey].num_bytes = 1
    /\ PrevKey \notin DOMAIN store.files /\ store.files # <<>>

\* ---- C27
\* C27: a Delta chunk with which the delta gathered for the path is shorter
\* than data_size is answered Ok and leaves the destination tree as it is; the
\* destination file is unlinked and written again only with the chunk that
\* brings the delta to data_size, and with that chunk the DeltaEntry of the
\* path leaves the store.
C27_DeltaAppliedOnLastChunk ==
    DeltaChunk =>
        /\ Len(PrevDelta) < prev.req.transfer.data_size =>
              /\ prev.resp.kind = "Ok" /\ fs = prev.fs
              /\ PrevKey \in DOMAIN store.deltas
              /\ store.deltas[PrevKey].delta = PrevDelta
        /\ fs # prev.fs => Len(PrevDelta) = prev.req.transfer.data_size
        /\ Len(PrevDelta) = prev.req.transfer.data_size =>
              PrevKey \notin DOMAIN store.deltas

\* the second chunk of a delta was the last: the file was written again and
\* the entry is gone
C27_Witness ==
    /\ DeltaChunk /\ PrevKey \in DOMAIN prev.store.deltas
    /\ Len(prev.store.deltas[PrevKey].delta) > 0
    /\ Len(PrevDelta) = prev.req.transfer.data_size
    /\ fs # prev.fs /\ PrevKey \notin DOMAIN store.deltas

C27_WitnessFirstChunk ==
    /\ DeltaChunk /\ Len(PrevDelta) < prev.req.transfer.data_size
    /\ IsFile(fs, PrevPath) /\ prev.resp.kind = "Ok"

\* ---- C28
\* The destination has an empty file at the place of the source path p.
EmptyAtDestination(f, p) ==
    LET d == Join(DstRoot, StripPrefix(SrcRoot, p).rel)
    IN  IsFile(f, d) /\ f[d].c = <<>>

\* C28: when the transfer of a source file without a byte that the destination
\* does not have is over - after the NeedContents response to its Check, or
\* after its Create(File) event - the destination has an empty file at its
\* path.
C28_EmptyFileIsCreated ==
    /\ []((Received("check_file") /\ prev.resp.kind = "NeedContents"
             /\ prev.cur.mmap = <<>> /\ cur = Idle /\ phase # "fatal")
            => EmptyAtDestination(fs, prev.cur.path))
    /\ [][(HandlesEvent /\ Head(events).kind = "CreateFile"
             /\ ~should_skip_path(Head(events).p1)
             /\ IsFile(fs, Head(events).p1) /\ fs[Head(events).p1].c = <<>>
             /\ ~Exists(fs, Join(DstRoot, StripPrefix(SrcRoot, Head(events).p1).rel))
             /\ cur' = Idle /\ phase' # "fatal")
            => EmptyAtDestination(fs', Head(events).p1)]_vars

\* ---- C29
\* C29: after a CantHandle response to a Delta request the destination file
\* of the path has the content it had before the request.
C29_RefusedDeltaKeepsFile ==
    (Handled("Delta") /\ prev.resp.kind = "CantHandle") =>
        fs[PrevPath] = prev.fs[PrevPath]

\* ---- C30
Unsent(n) == Src(n) \in unsent /\ phase # "fatal"

\* C30: every creation, modification or removal of a source path that is not
\* ignored, made at any time after the sender started, is followed by a
\* request about the path, unless the sender meets a fatal error.
C30_EveryChangeIsSent ==
    \A n \in Names :
        ~should_skip_path(Src(n)) =>
            (Unsent(n) ~> (Src(n) \notin unsent \/ phase = "fatal"))

\* The same of the changes the watcher has an event for that the sender has
\* not yet taken from the channel, when the path is not an empty file.
Watched(n) ==
    /\ \E i \in 1..Len(events) : Changed(events[i]) = {Src(n)}
    /\ ~(IsFile(fs, Src(n)) /\ fs[Src(n)].c = <<>>)

C30_EveryWatchedChangeIsSent ==
    \A n \in Names :
        ~should_skip_path(Src(n)) =>
            ((Unsent(n) /\ Watched(n) /\ missed = 0) ~>
                (Src(n) \notin unsent \/ phase = "fatal"))

\* ---- C31 (specification SpecRecv)
\* The store has an entry, of a file or of a delta, under the path.
HasEntry(st, p) == p \in DOMAIN st.files \/ p \in DOMAIN st.deltas

\* The request handled took the file of its path away: a Remove or a Rename
\* that went through, or the last chunk of a delta that was applied.
TookFileAway ==
    \/ Handled("Remove") /\ prev.resp.kind = "Ok"
    \/ /\ Handled("Rename") /\ prev.resp.kind = "Ok"
       /\ Exists(prev.fs, PrevPath) /\ ~Exists(fs, PrevPath)
    \/ /\ DeltaChunk /\ Len(PrevDelta) = prev.req.transfer.data_size
       /\ prev.resp.kind \in {"Ok", "NeedContents"}

\* C31: once a Remove, a Rename or the completion of a delta has taken the
\* destination file of a path away or replaced it, the store holds no
\* FileEntry and no DeltaEntry for the path.
C31_NoStaleEntry ==
    TookFileAway => ~HasEntry(store, PrevPath)

\* The same of the delta entries alone, which handle_delta removes.
C31_NoStaleDeltaAfterDelta ==
    (DeltaChunk /\ Len(PrevDelta) = prev.req.transfer.data_size) =>
        PrevPath \notin DOMAIN store.deltas

\* ---- C32 (specification SpecWatch; it holds in Spec too, where uploads
\* have two chunks)
\* The sender is between two files: it has finished one entry or event and
\* has not started the next, and nothing is in flight.
BetweenFiles == cur = Idle /\ requests = <<>> /\ responses = <<>>

\* C32: every time the sender is between two files the store of the receiver
\* is empty: it has no FileEntry and no DeltaEntry.
C32_StoreEmptyBetweenFiles ==
    BetweenFiles => store = EmptyStore

\* the sender has just finished a file with the response it took:
\* an Ok to the last Contents chunk,
C32_Witness ==
    /\ BetweenFiles /\ Received("contents") /\ prev.resp.kind = "Ok"
    /\ ~prev.cur.fallback
\* a CantHandle of the integrity check on the last Contents chunk,
C32_WitnessIntegrity ==
    /\ BetweenFiles /\ Received("contents") /\ prev.resp.kind = "CantHandle"
    /\ prev.resp.reason = "data integrity failed"
\* the response to the last Contents chunk of a delta fallback.
C32_WitnessFallback ==
    /\ BetweenFiles /\ Received("contents") /\ prev.cur.fallback

\* ---- C33 (specification SpecSendLive)
\* The sender is in a run of the check-and-transfer protocol of a file.
InRun == cur.op \in {"check_file", "delta", "contents"}

\* A step in which the sender sends a request of a run: the Check opens the
\* run, a Delta chunk follows the Check or the chunk before it, a Contents
\* chunk follows the Check, the last Delta chunk (the fallback) or the chunk
\* before it (a run that an event of a new file starts has no Check).
RunStep ==
    /\ nextId' \in {nextId, nextId + 1}
    /\ nextId' = nextId => (cur' = cur \/ cur' = Idle)
    /\ (nextId' = nextId + 1 /\ cur'.op = "check_file") => cur = Idle
    /\ (nextId' = nextId + 1 /\ cur'.op = "delta") =>
          \/ cur.op = "check_file" /\ cur'.n = 1
          \/ /\ cur.op = "delta" /\ cur'.n = cur.n + 1
             /\ cur' = [cur EXCEPT !.n = cur.n + 1]
    /\ (nextId' = nextId + 1 /\ cur'.op = "contents") =>
          \/ cur.op \in {"idle", "check_file"} /\ cur'.n = 1 /\ ~cur'.fallback
          \/ /\ cur.op = "delta" /\ cur.n = cur.num_chunks
             /\ cur'.n = 1 /\ cur'.fallback
          \/ /\ cur.op = "contents" /\ cur' = [cur EXCEPT !.n = cur.n + 1]
    /\ InRun' => cur'.n <= cur'.num_chunks

\* C33: a run of the sender's protocol for a file sends one Check, then the
\* chunks of one delta in order, then the chunks of the snapshot in order
\* once, never goes back to an earlier phase, and comes to its end when every
\* request is answered.
C33_RunTerminates ==
    /\ [][RunStep]_vars
    /\ InRun ~> (cur = Idle)

\* a run has gone through its three phases: the response to the last Contents
\* chunk of a fallback upload of two chunks has come
C33_Witness ==
    /\ cur = Idle /\ Received("contents") /\ prev.cur.fallback
    /\ prev.cur.n = 2 /\ prev.cur.num_chunks = 2

====
